---- MODULE Spec2Model ----
(***************************************************************************)
(* Model of the per-account live session engine of xianyu-auto-reply      *)
(* (src/XianyuAutoAsync.py, class XianyuLive) and of the administrative    *)
(* entry points of src/reply_server.py that touch the same state.          *)
(*                                                                         *)
(* Strings are sequences of characters.  A character is a one-letter TLA+  *)
(* string; a CJK character of the source is written as a short ASCII name  *)
(* (its pinyin) and still counts as one character.                         *)
(***************************************************************************)
EXTENDS Integers, Sequences, FiniteSets, TLC

None == "None"

\* ------------------------------------------------------------------------
\* Strings
\* ------------------------------------------------------------------------
UpperAlpha == <<"A","B","C","D","E","F","G","H","I","J","K","L","M",
                "N","O","P","Q","R","S","T","U","V","W","X","Y","Z">>
LowerAlpha == <<"a","b","c","d","e","f","g","h","i","j","k","l","m",
                "n","o","p","q","r","s","t","u","v","w","x","y","z">>

\* str.lower() on one character
LowerChar(c) ==
    IF \E i \in 1..26 : UpperAlpha[i] = c
    THEN LowerAlpha[CHOOSE i \in 1..26 : UpperAlpha[i] = c]
    ELSE c

\* str.lower()
Lower(s) == [i \in 1..Len(s) |-> LowerChar(s[i])]

\* Python's  k in s  on strings
IsSubstr(k, s) ==
    \E i \in 0..(Len(s) - Len(k)) : SubSeq(s, i + 1, i + Len(k)) = k

\* ------------------------------------------------------------------------
\* Bounds of the model
\* ------------------------------------------------------------------------
StartTime == 600      \* clock value at construction (any epoch >= the cooldowns)
MaxTime == 1200       \* the clock stops advancing here
MaxFrames == 2        \* frames read by the receive loop
MaxStoreFrames == 3   \* frames read when two sessions share the data card

\* clock increments between two reads of time.time()
TickSteps == {300}

\* ------------------------------------------------------------------------
\* Program constants
\* ------------------------------------------------------------------------
delivery_cooldown == 600
order_confirm_cooldown == 600

Sessions == {"s1", "s2"}
\* the sessions whose connection breaks and whose account status is changed
Disturbed == {"s1"}
Orders == {"o1", "o2", "o3"}
Items == {"i1", "i2", "i3"}
NoTime == 0 - 1

\* ------------------------------------------------------------------------
\* Literals of the source.  CJK characters are written in pinyin.
\* ------------------------------------------------------------------------
\* '[wo yi fu kuan, deng dai ni fa huo]'  (paid, waiting for you to ship)
TriggerPaidBracket ==
    <<"[","wo","yi","fu","kuan","cm","deng","dai","ni","fa","huo","]">>
\* '[yi fu kuan, dai fa huo]'
TriggerPaidShort == <<"[","yi","fu","kuan","cm","dai","fa","huo","]">>
\* 'wo yi fu kuan, deng dai ni fa huo'
TriggerPaidPlain == <<"wo","yi","fu","kuan","cm","deng","dai","ni","fa","huo">>
\* '[ji de ji shi fa huo]'  (remember to ship in time)
TriggerRemember == <<"[","ji","de","jii","shi","fa","huo","]">>
\* '[ka pian xiao xi]'  (card message)
CardMessageText == <<"[","ka","pian","xiao","xi","]">>
\* 'wo yi xiao dao, dai dao cheng'  (bargain claimed)
BargainTitle == <<"wo","yi","xiaoo","dao","cm","dai","dao","cheng">>
\* 'dai huo qu shang pin xin xi'  (item info pending), the title passed to _auto_delivery
PendingTitle == <<"dai","huo","qu","shang","pin","xin","xi">>

auto_delivery_keywords ==
    <<TriggerPaidBracket, TriggerPaidShort, TriggerPaidPlain, TriggerRemember>>

\* XianyuLive._is_auto_delivery_trigger
IsAutoDeliveryTrigger(message) ==
    \E i \in 1..Len(auto_delivery_keywords) :
        IsSubstr(auto_delivery_keywords[i], message)

\* ------------------------------------------------------------------------
\* Inbound frames.  A frame is what json.loads gives the receive loop:
\*   code   top-level "code" (200 on a heartbeat ack, 0 when absent)
\*   sync   body.syncPushPackage.data is present and non-empty
\*   sender "buyer" or "me" (senderUserId = self.myid)
\*   text   message["1"]["10"].reminderContent
\*   title  the embedded card's exContent.title
\*   btn, main, dyn   the order id each of the three URL shapes carries
\*   item   the item id, chat the chat id
\* ------------------------------------------------------------------------
OrderOpt == Orders \cup {None}

Frame(code, sync, sender, text, title, btn, main, dyn, item) ==
    [code |-> code, sync |-> sync, sender |-> sender, text |-> text,
     title |-> title, btn |-> btn, main |-> main, dyn |-> dyn, item |-> item]

HeartbeatAck == Frame(200, FALSE, "me", <<>>, <<>>, None, None, None, "i1")
PlainResponse == Frame(0, FALSE, "me", <<>>, <<>>, None, None, None, "i1")
TriggerFrame(o, i) ==
    Frame(0, TRUE, "buyer", TriggerPaidBracket, <<>>, o, None, None, i)
BargainFrame(o, i) ==
    Frame(0, TRUE, "buyer", CardMessageText, BargainTitle, None, o, None, i)
ChatFrame(t, i) == Frame(0, TRUE, "buyer", t, <<>>, None, None, None, i)
NoFrame == Frame(0, FALSE, "me", <<>>, <<>>, None, None, None, "i1")
\* a sync package whose data is neither base64 JSON nor decryptable: no
\* field of the message can be read
GarbledFrame == Frame(0, TRUE, None, <<>>, <<>>, None, None, None, "i1")

\* XianyuLive._extract_order_id: button targetUrl, then main targetUrl, then
\* the dynamicOperation targetUrl; the first that yields an id wins
extract_order_id(f) ==
    IF f.btn # None THEN f.btn
    ELSE IF f.main # None THEN f.main
    ELSE f.dyn

\* ------------------------------------------------------------------------
\* The store: delivery rules joined with their cards
\* ------------------------------------------------------------------------
DeliveryContentVar == "{DELIVERY_CONTENT}"

Rule(id, kw, ctype, multi, sn, sv, text, desc) ==
    [id |-> id, keyword |-> kw, card_type |-> ctype, is_multi_spec |-> multi,
     spec_name |-> sn, spec_value |-> sv, text_content |-> text,
     card_description |-> desc]

DeliveryRules ==
    { Rule(1, <<"a","b">>, "text", TRUE, "n1", "v1", <<"T","1">>, <<>>),
      Rule(2, <<"a">>, "data", FALSE, "", "", <<>>, <<"d", ":", DeliveryContentVar>>),
      Rule(3, <<"c">>, "api", FALSE, "", "", <<>>, <<"n","b">>),
      Rule(4, <<"a">>, "text", TRUE, "n1", "v2", <<"T","4">>, <<>>) }

RuleIds == {r.id : r \in DeliveryRules}
NoRule == 0
RuleById(id) == CHOOSE r \in DeliveryRules : r.id = id

\* rows of the data card of rule 2, as created
InitialCardRows == <<"k1", "k2">>

\* live product content the item.detail API returns, and the persisted
\* title + detail of the same product
ItemContent == [i \in Items |->
    CASE i = "i1" -> <<"x","a","b">>
      [] i = "i2" -> <<"a">>
      [] OTHER    -> <<"c">>]

\* db_manager.get_item_multi_spec_status
ItemMultiSpec == [i \in Items |-> i = "i1"]

\* what fetch_order_detail_info can return: nothing (found is FALSE), or
\* the order's spec_name and spec_value, either of which may be empty
OrderDetail(found, sn, sv) ==
    [found |-> found, spec_name |-> sn, spec_value |-> sv]
OrderDetails ==
    { OrderDetail(FALSE, "", ""),
      OrderDetail(TRUE, "n1", "v1"),
      OrderDetail(TRUE, "n1", "v2"),
      OrderDetail(TRUE, "n1", "") }

\* ORDER BY: longer keyword first, ties by rule id ascending
RuleBefore(a, b) ==
    \/ Len(a.keyword) > Len(b.keyword)
    \/ Len(a.keyword) = Len(b.keyword) /\ a.id < b.id

RECURSIVE SortRules(_)
SortRules(S) ==
    IF S = {} THEN <<>>
    ELSE LET first == CHOOSE r \in S : \A q \in S \ {r} : RuleBefore(r, q)
         IN <<first>> \o SortRules(S \ {first})

\* db_manager.get_delivery_rules_by_keyword_and_spec
get_delivery_rules_by_keyword_and_spec(search_text, spec_name, spec_value) ==
    SortRules({r \in DeliveryRules :
        /\ IsSubstr(r.keyword, search_text)
        /\ r.is_multi_spec
        /\ r.spec_name = spec_name
        /\ r.spec_value = spec_value})

\* db_manager.get_delivery_rules_by_keyword
get_delivery_rules_by_keyword(search_text) ==
    SortRules({r \in DeliveryRules : IsSubstr(r.keyword, search_text)})

\* XianyuLive._auto_delivery, search text: live product content, else the
\* persisted title + detail, else the title passed in
SearchSources == {"api", "db", "title"}
SearchText(item, src) ==
    IF src = "title" THEN PendingTitle ELSE ItemContent[item]

\* XianyuLive._auto_delivery, spec discovery: the order's specs are fetched
\* only for a multi-spec product with an order id, and count only when both
\* the name and the value are non-empty
DiscoverSpec(item, order_id, detail) ==
    IF ItemMultiSpec[item] /\ order_id # None /\ detail.found
    THEN [spec_name |-> detail.spec_name, spec_value |-> detail.spec_value]
    ELSE [spec_name |-> "", spec_value |-> ""]

\* XianyuLive._auto_delivery, rule matching: the exact multi-spec tier when
\* specs are known, the plain keyword tier as fallback; the first rule wins
MatchRule(search_text, spec) ==
    LET exact == IF spec.spec_name # "" /\ spec.spec_value # ""
                 THEN get_delivery_rules_by_keyword_and_spec(
                          search_text, spec.spec_name, spec.spec_value)
                 ELSE <<>>
        rules == IF exact # <<>> THEN exact
                 ELSE get_delivery_rules_by_keyword(search_text)
    IN IF rules = <<>> THEN NoRule ELSE rules[1].id

\* XianyuLive._process_delivery_content_with_description
RECURSIVE ReplaceVar(_, _)
ReplaceVar(desc, content) ==
    IF desc = <<>> THEN <<>>
    ELSE (IF Head(desc) = DeliveryContentVar THEN content ELSE <<Head(desc)>>)
         \o ReplaceVar(Tail(desc), content)

process_delivery_content_with_description(delivery_content, card_description) ==
    IF card_description = <<>> THEN delivery_content
    ELSE IF \E i \in 1..Len(card_description) :
                card_description[i] = DeliveryContentVar
         THEN ReplaceVar(card_description, delivery_content)
         ELSE card_description \o <<"\n", "\n">> \o delivery_content

\* db_manager.get_auto_confirm, per account
auto_confirm_enabled == [s \in Sessions |-> s = "s1"]

\* ------------------------------------------------------------------------
\* Signed API client: texts of the ret array, responses, cookies
\* ------------------------------------------------------------------------

\* 'SUCCESS::调用成功'
SuccessMarker ==
    <<"S", "U", "C", "C", "E", "S", "S", ":", ":", "diao", "yong",
      "cheng", "gong">>

\* 'FAIL_SYS_TOKEN_EXPIRED::令牌过期', as the server sends it
TokenExpiredRet ==
    <<"F", "A", "I", "L", "_", "S", "Y", "S", "_", "T", "O", "K", "E",
      "N", "_", "E", "X", "P", "I", "R", "E", "D", ":", ":", "ling",
      "pai", "guo", "qi">>

\* 'FAIL_SYS_SESSION_EXPIRED::Session过期', as the server sends it
SessionExpiredRet ==
    <<"F", "A", "I", "L", "_", "S", "Y", "S", "_", "S", "E", "S", "S",
      "I", "O", "N", "_", "E", "X", "P", "I", "R", "E", "D", ":", ":",
      "S", "e", "s", "s", "i", "o", "n", "guo", "qi">>

\* 'FAIL_SYS_ILLEGAL_ACCESS::非法请求', a failure that is no expiry
IllegalAccessRet ==
    <<"F", "A", "I", "L", "_", "S", "Y", "S", "_", "I", "L", "L", "E",
      "G", "A", "L", "_", "A", "C", "C", "E", "S", "S", ":", ":", "fei",
      "fa", "qing", "qiu">>

\* the marker get_item_list_info looks for, spelled as in the source
ExoiredMarker ==
    <<"F", "A", "I", "L", "_", "S", "Y", "S", "_", "T", "O", "K", "E",
      "N", "_", "E", "X", "O", "I", "R", "E", "D">>

\* 'token', looked for in error_msg.lower()
TokenWord ==
    <<"t", "o", "k", "e", "n">>

Users == {"u1", "u2"}
\* the live session of the account, and the XianyuLive instance that the
\* item endpoints of reply_server build from the stored cookie
Instances == {"live", "adhoc"}
\* access tokens the login-token API hands out
Tokens == {"t1", "t2"}
\* TOKEN_REFRESH_INTERVAL of the configuration, in seconds
token_refresh_interval == 3600
\* largest clock value of the API specification
MaxApiTime == 7200
\* "if retry_count >= 4" at the head of both signed calls
max_retry_count == 4
\* asyncio.sleep(0.5) before a retry, in milliseconds
retry_sleep_ms == 500

\* self.cookies: names and values
CookieNames == {"_m_h5_tk", "unb"}
InitialCookies ==
    [n \in CookieNames |-> IF n = "_m_h5_tk" THEN "tk1" ELSE "unb1"]
\* the new_cookies a response's set-cookie headers yield
SetCookieHeaders == { {}, {<<"_m_h5_tk", "tk2">>} }

\* self.cookies.update(new_cookies)
MergeCookies(cookies, new_cookies) ==
    [n \in DOMAIN cookies |->
        IF \E p \in new_cookies : p[1] = n
        THEN (CHOOSE p \in new_cookies : p[1] = n)[2]
        ELSE cookies[n]]

\* what a POST yields: a JSON object with its ret array, another JSON value,
\* or an exception; with the new_cookies of its set-cookie headers
Response(kind, ret, set_cookie) ==
    [kind |-> kind, ret |-> ret, set_cookie |-> set_cookie]
NoResponse == Response("none", <<>>, {})
ApiResponses ==
    {Response("dict", <<r>>, sc) :
        r \in {SuccessMarker, TokenExpiredRet, SessionExpiredRet,
               IllegalAccessRet},
        sc \in SetCookieHeaders}
    \cup {Response("dict", <<>>, sc) : sc \in SetCookieHeaders}
    \cup {Response("nondict", <<>>, sc) : sc \in SetCookieHeaders}
    \cup {Response("exception", <<>>, {})}

\* what the login-token API yields; accessToken is None when data has none
RefreshResponse(kind, ret, set_cookie, accessToken) ==
    [kind |-> kind, ret |-> ret, set_cookie |-> set_cookie,
     accessToken |-> accessToken]
RefreshResponses ==
    {RefreshResponse("dict", <<SuccessMarker>>, sc, t) :
        sc \in SetCookieHeaders, t \in Tokens \cup {None}}
    \cup {RefreshResponse("dict", <<TokenExpiredRet>>, sc, None) :
            sc \in SetCookieHeaders}
    \cup {RefreshResponse("exception", <<>>, {}, None)}

\* any('SUCCESS::调用成功' in ret for ret in ret_value)
AnySuccess(ret_value) ==
    \E k \in 1..Len(ret_value) : IsSubstr(SuccessMarker, ret_value[k])

\* the refresh an attempt made before its POST
Refresh(done, ok, token, at, before) ==
    [done |-> done, ok |-> ok, token |-> token, at |-> at,
     before |-> before]
NoRefresh == Refresh(FALSE, FALSE, None, 0, None)

\* what a signed call returns: res_json, or {"error": ...}
TooManyRetries == "too_many_retries"
CallFailed == "failed"
OkResult(res_json) == [error |-> None, res |-> res_json]
ErrorResult(msg, res_json) == [error |-> msg, res |-> res_json]
NoReturn == OkResult(NoResponse)

\* a signed call in progress: the function, where it stands, its
\* retry_count, the POSTs made, the milliseconds it slept before this
\* attempt, the refresh of this attempt, the previous and the latest response
IdleCall ==
    [fn |-> None, pc |-> "idle", retry_count |-> 0, posts |-> 0,
     slept |-> 0, refresh |-> NoRefresh, prev |-> NoResponse,
     res |-> NoResponse, ret |-> NoReturn]

\* a call of db_manager.save_cookie: who made it and the owner it passed
Save(by, owner) == [by |-> by, user_id |-> owner]
NoSave == Save(None, None)

\* the signed call each instance issues
CallsOf(i) ==
    IF i = "live" THEN {"get_item_info"} ELSE {"get_item_list_info"}

\* ------------------------------------------------------------------------
\* State
\* ------------------------------------------------------------------------
VARIABLES
    now,                     \* time.time()
    wire,                    \* the frames the server may push, per session
    frames_left,             \* frames the receive loops may still read
    reconnected,             \* whether the session has connected again
    enabled,                 \* cookie_manager.get_cookie_status, per account
    pc,                      \* where each session's receive loop stands
    cur,                     \* the frame each session is handling
    last_heartbeat_response, \* self.last_heartbeat_response
    last_delivery_time,      \* self.last_delivery_time, per session
    confirmed_orders,        \* self.confirmed_orders, per session
    card_data,               \* remaining rows of the data card (store)
    delivery_times,          \* delivery counter of each rule (store)
    sent,                    \* delivery messages written to the socket
    confirm_log,             \* calls of auto_confirm
    consumed,                \* rows taken from the data card
    notify_log,              \* calls of send_delivery_failure_notification
    skipped,                 \* triggers dropped by the delivery cooldown
    args,                    \* arguments of the function under study
    result,                  \* what the function under study returned
    cookie_store,            \* the account's row of the cookie store
    last_save,               \* the latest call of db_manager.save_cookie
    user_id,                 \* self.user_id, per instance
    cookies_str,             \* self.cookies / self.cookies_str
    current_token,           \* self.current_token
    last_token_refresh_time, \* self.last_token_refresh_time
    call,                    \* the signed call each instance is making
    last_notification_time,  \* self.last_notification_time, per kind
    notifications,           \* whether the account has an enabled channel
    notifying,               \* the notification each task is sending
    dispatched,              \* Token-health notifications sent to a channel
    handled,                 \* how the latest notification text was disposed of
    main,                    \* where XianyuLive.main stands
    ws,                      \* self.ws
    heartbeat_task,          \* self.heartbeat_task
    token_refresh_task,      \* self.token_refresh_task
    connection_restart_flag, \* self.connection_restart_flag
    registered,              \* the token sent with /reg on this connection
    server,                  \* the server's side: silent, ack on its way
    observed,                \* what the lifecycle properties look at
    horizon                  \* how far the run is followed: clock, disturbances

sessionVars == <<now, wire, frames_left, reconnected, enabled, pc, cur,
                 last_heartbeat_response>>
ledgerVars == <<last_delivery_time, confirmed_orders>>
storeVars == <<card_data, delivery_times>>
logVars == <<sent, confirm_log, consumed, notify_log, skipped>>
deliveryVars == <<sessionVars, ledgerVars, storeVars, logVars>>
benchVars == <<args, result>>
tokenVars == <<current_token, last_token_refresh_time>>
cookieVars == <<cookie_store, last_save, cookies_str>>
apiVars == <<cookieVars, user_id, tokenVars, call>>
notifyVars == <<last_notification_time, notifications, notifying,
                dispatched, handled>>
lifeVars == <<main, ws, heartbeat_task, token_refresh_task,
              connection_restart_flag, registered, server, observed,
              horizon>>
engineVars == <<notifyVars, lifeVars>>
vars == <<deliveryVars, benchVars, apiVars, engineVars>>

NoCur == [f |-> NoFrame, acked |-> FALSE, order |-> None, checked |-> NoTime,
          rule |-> NoRule, content |-> <<>>]

\* XianyuLive.__init__, the stores and the observation logs at the start
InitDelivery ==
    /\ reconnected = [s \in Sessions |-> FALSE]
    /\ enabled = [s \in Sessions |-> TRUE]
    /\ pc = [s \in Sessions |-> "idle"]
    /\ cur = [s \in Sessions |-> NoCur]
    /\ last_heartbeat_response = [s \in Sessions |-> 0]
    /\ last_delivery_time = [s \in Sessions |-> [o \in Orders |-> 0]]
    /\ confirmed_orders = [s \in Sessions |-> [o \in Orders |-> NoTime]]
    /\ card_data = InitialCardRows
    /\ delivery_times = [r \in RuleIds |-> 0]
    /\ sent = {}
    /\ confirm_log = {}
    /\ consumed = {}
    /\ notify_log = {}
    /\ skipped = {}

InitBenchIdle ==
    /\ args = <<>>
    /\ result = <<>>

\* XianyuLive.__init__ of each instance, and the account's row as
\* add_cookie stored it
InitApiIdle(owner, live_user_id) ==
    /\ cookie_store = [value |-> InitialCookies, user_id |-> owner]
    /\ last_save = NoSave
    /\ user_id = [i \in Instances |->
                     IF i = "live" THEN live_user_id ELSE None]
    /\ cookies_str = [i \in Instances |-> InitialCookies]
    /\ current_token = [i \in Instances |-> None]
    /\ last_token_refresh_time = [i \in Instances |-> 0]
    /\ call = [i \in Instances |-> IdleCall]

\* ------------------------------------------------------------------------
\* Token-health notifications: the texts and kinds the session reports
\* ------------------------------------------------------------------------

\* normal_expiry_keywords of _is_normal_token_expiry, in the source's order
normal_expiry_keywords ==
    <<
      \* 'FAIL_SYS_TOKEN_EXOIRED::令牌过期'
      <<"F", "A", "I", "L", "_", "S", "Y", "S", "_", "T", "O", "K",
       "E", "N", "_", "E", "X", "O", "I", "R", "E", "D", ":", ":",
       "ling", "pai", "guo", "qi">>,
      \* 'FAIL_SYS_TOKEN_EXPIRED::令牌过期'
      <<"F", "A", "I", "L", "_", "S", "Y", "S", "_", "T", "O", "K",
       "E", "N", "_", "E", "X", "P", "I", "R", "E", "D", ":", ":",
       "ling", "pai", "guo", "qi">>,
      \* 'FAIL_SYS_TOKEN_EXOIRED'
      <<"F", "A", "I", "L", "_", "S", "Y", "S", "_", "T", "O", "K",
       "E", "N", "_", "E", "X", "O", "I", "R", "E", "D">>,
      \* 'FAIL_SYS_TOKEN_EXPIRED'
      <<"F", "A", "I", "L", "_", "S", "Y", "S", "_", "T", "O", "K",
       "E", "N", "_", "E", "X", "P", "I", "R", "E", "D">>,
      \* '令牌过期'
      <<"ling", "pai", "guo", "qi">>,
      \* 'FAIL_SYS_SESSION_EXPIRED::Session过期'
      <<"F", "A", "I", "L", "_", "S", "Y", "S", "_", "S", "E", "S",
       "S", "I", "O", "N", "_", "E", "X", "P", "I", "R", "E", "D", ":",
       ":", "S", "e", "s", "s", "i", "o", "n", "guo", "qi">>,
      \* 'FAIL_SYS_SESSION_EXPIRED'
      <<"F", "A", "I", "L", "_", "S", "Y", "S", "_", "S", "E", "S",
       "S", "I", "O", "N", "_", "E", "X", "P", "I", "R", "E", "D">>,
      \* 'Session过期'
      <<"S", "e", "s", "s", "i", "o", "n", "guo", "qi">>,
      \* 'Token定时刷新失败，将自动重试'
      <<"T", "o", "k", "e", "n", "ding", "shi2", "shua", "xin",
       "shi1", "bai", "douhao", "jiang", "zi", "dong", "chong", "shi4">>,
      \* 'Token定时刷新失败'
      <<"T", "o", "k", "e", "n", "ding", "shi2", "shua", "xin",
       "shi1", "bai">>
    >>

\* 'FAIL_SYS_SESSION_EXPIRED::SESSION失效', an expiry in other words
SessionInvalidRet ==
    <<"F", "A", "I", "L", "_", "S", "Y", "S", "_", "S", "E", "S", "S",
     "I", "O", "N", "_", "E", "X", "P", "I", "R", "E", "D", ":", ":",
     "S", "E", "S", "S", "I", "O", "N", "shi1", "xiao4">>

\* f"Token刷新失败: {res_json}", the text refresh_token reports
RefreshFailedText(ret) ==
    <<"T", "o", "k", "e", "n", "shua", "xin", "shi1", "bai", ":",
      " ">> \o ret

\* "Token定时刷新失败，将自动重试", the text token_refresh_loop reports
ScheduledFailureText ==
    <<"T", "o", "k", "e", "n", "ding", "shi2", "shua", "xin", "shi1",
     "bai", "douhao", "jiang", "zi", "dong", "chong", "shi4">>

\* "初始化时无法获取有效Token", the text init reports
InitFailedText ==
    <<"chu", "shi3", "hua", "shi2", "wu", "fa", "huo", "qu", "you",
     "xiao", "T", "o", "k", "e", "n">>

\* the tasks of one session that report Token-health events: main (init
\* and the calls made while a message is handled) and token_refresh_loop
Tasks == {"main", "token_refresh_loop"}

NotificationTypes ==
    {"token_refresh_failed", "token_scheduled_refresh_failed",
     "token_init_failed"}

NotificationCall(text, type) ==
    [error_message |-> text, notification_type |-> type]

NoNotificationCall == NotificationCall(<<>>, None)

\* the calls of send_token_refresh_notification a task makes: refresh_token
\* reports from either task, token_refresh_loop and init from their own
NotificationCalls(task) ==
    { NotificationCall(RefreshFailedText(ret), "token_refresh_failed") :
         ret \in {TokenExpiredRet, SessionInvalidRet, IllegalAccessRet} }
    \cup (IF task = "token_refresh_loop"
          THEN { NotificationCall(ScheduledFailureText,
                                  "token_scheduled_refresh_failed") }
          ELSE { NotificationCall(InitFailedText, "token_init_failed") })

Disposal(c, outcome) == [text |-> c.error_message, outcome |-> outcome]

NoDisposal == Disposal(NoNotificationCall, None)

\* a task that is not inside send_token_refresh_notification
IdleNotification ==
    [pc |-> "idle", call |-> NoNotificationCall, current_time |-> NoTime]

\* XianyuLive.__init__: the notification ledger, and the observation logs
InitNotifyIdle ==
    /\ last_notification_time = [t \in NotificationTypes |-> 0]
    /\ notifications = TRUE
    /\ notifying = [t \in Tasks |-> IdleNotification]
    /\ dispatched = {}
    /\ handled = NoDisposal

\* ------------------------------------------------------------------------
\* Session lifecycle: one account, its session's main loop and two tasks
\* ------------------------------------------------------------------------
Account == "s1"
Live == "live"

MaxConnections == 3       \* connections one run may open
LifeWindow == 60          \* seconds followed step by step at a time
MaxLifeTime == 8000       \* the clock of the lifecycle model stops here
MaxFailures == 2          \* consecutive failures of the scheduled refresh
MaxDisturbances == 1      \* failures and status switches met in one run
MaxSentFrames == 3        \* frames remembered per connection

heartbeat_interval == 15
token_retry_interval == 300
token_poll_interval == 60
reconnect_delay == 5

\* a task is absent ("none"), asleep until wake, ended by its own break
\* ("done") or ended by task.cancel() ("cancelled")
Task(p, wake) == [pc |-> p, wake |-> wake]
NoTask == Task("none", NoTime)

\* the socket: how many connections were opened so far, and whether the
\* latest is open, closed normally or lost
Socket(id, state) == [id |-> id, state |-> state]

\* observations the properties are stated on
Observed ==
    [disabled_at |-> NoTime,    \* when the account was last disabled
     active_since |-> NoTime,   \* when the current connection registered
     chat_on |-> 0,             \* connection of the latest chat handled
     restart_from |-> 0,        \* connection a scheduled refresh closed
     failures |-> 0,            \* consecutive failed scheduled refreshes
     failed_on |-> 0,           \* connection they happened on
     hb_failed_on |-> 0,        \* connection a heartbeat could not be sent on
     frames |-> <<>>,           \* first frames sent on the latest connection
     ended_at |-> NoTime]       \* when the latest connection ended, if it has

\* XianyuLive.__init__ and the server's side of the socket
InitLifeIdle ==
    /\ main = Task("check", NoTime)
    /\ ws = Socket(0, "none")
    /\ heartbeat_task = NoTask
    /\ token_refresh_task = NoTask
    /\ connection_restart_flag = FALSE
    /\ registered = None
    /\ server = [silent |-> FALSE, ack_pending |-> FALSE]
    /\ observed = Observed
    /\ horizon = [until |-> 0, events |-> 0]

InitEngineIdle ==
    /\ InitNotifyIdle
    /\ InitLifeIdle

\* ------------------------------------------------------------------------
\* The clock
\* ------------------------------------------------------------------------
Tick(d) ==
    /\ now + d <= MaxTime
    /\ now' = now + d
    /\ UNCHANGED <<wire, frames_left, reconnected, enabled, pc, cur,
                   last_heartbeat_response>>
    /\ UNCHANGED <<ledgerVars, storeVars, logVars, benchVars, apiVars,
                   engineVars>>

\* ------------------------------------------------------------------------
\* XianyuLive.main, receive loop: one frame is read and first offered to
\* handle_heartbeat_response, which takes every frame whose code is 200
\* ------------------------------------------------------------------------
IsHeartbeatResponse(f) == f.code = 200

ReadFrame(s, f) ==
    /\ pc[s] = "idle"
    /\ frames_left > 0
    /\ frames_left' = frames_left - 1
    /\ IF IsHeartbeatResponse(f)
       THEN /\ last_heartbeat_response' =
                  [last_heartbeat_response EXCEPT ![s] = now]
            /\ UNCHANGED <<pc, cur>>
       ELSE /\ pc' = [pc EXCEPT ![s] = "handle"]
            /\ cur' = [cur EXCEPT ![s] = [NoCur EXCEPT !.f = f]]
            /\ UNCHANGED last_heartbeat_response
    /\ UNCHANGED <<now, wire, reconnected, enabled>>
    /\ UNCHANGED <<ledgerVars, storeVars, logVars, benchVars, apiVars,
                   engineVars>>

\* handle_message with the ack step left out
SendAck_skipped(c) == c

\* XianyuLive.handle_message, the ack: the ack frame is written once and a
\* failure of the write is swallowed; acked records that the step ran
SendAck(c) == [c EXCEPT !.acked = TRUE]

\* the status check with every account taken as enabled
get_cookie_status_on(s) == TRUE

\* cookie_manager.get_cookie_status(self.cookie_id): the status the
\* registry holds for the account
get_cookie_status(s) == enabled[s]

\* XianyuLive.handle_message, entry: a frame of a disabled account is dropped
\* before the ack; otherwise the ack is written
HandleMessage(s) ==
    /\ pc[s] = "handle"
    /\ IF ~get_cookie_status(s)
       THEN /\ pc' = [pc EXCEPT ![s] = "idle"]
            /\ cur' = [cur EXCEPT ![s] = NoCur]
       ELSE /\ pc' = [pc EXCEPT ![s] = "route"]
            /\ cur' = [cur EXCEPT ![s] = SendAck(cur[s])]
    /\ UNCHANGED <<now, wire, frames_left, reconnected, enabled,
                   last_heartbeat_response>>
    /\ UNCHANGED <<ledgerVars, storeVars, logVars, benchVars, apiVars,
                   engineVars>>

\* can_auto_delivery with the ledger lookup lost
can_auto_delivery_unchecked(s, order_id) == TRUE

\* XianyuLive.can_auto_delivery
can_auto_delivery(s, order_id) ==
    IF order_id = None THEN TRUE
    ELSE ~(now - last_delivery_time[s][order_id] < delivery_cooldown)

\* XianyuLive._handle_auto_delivery, up to the cooldown check: the pc the
\* handler continues at, and the frame record it carries on
AfterCooldownCheck(s, c) ==
    LET order_id == extract_order_id(c.f)
    IN IF can_auto_delivery(s, order_id)
       THEN [pc |-> "match", skip |-> {},
             cur |-> [c EXCEPT !.order = order_id, !.checked = now]]
       ELSE [pc |-> "idle", skip |-> {[s |-> s, order |-> order_id]},
             cur |-> NoCur]

\* XianyuLive.handle_message, classification of a chat message
Classify(f) ==
    IF f.sender = "me" THEN "self"
    ELSE IF IsAutoDeliveryTrigger(f.text) THEN "trigger"
    ELSE IF f.text = CardMessageText /\ f.title = BargainTitle THEN "bargain"
    ELSE "chat"

\* XianyuLive.handle_message, decoding: base64 and JSON, else decrypt and
\* JSON; when both raise, the handler logs and returns
Decodes(f) == f.sender # None

\* XianyuLive.handle_message after the ack: the sync-package test, the
\* decoding, and the routing of the classified message
RouteMessage(s) ==
    /\ pc[s] = "route"
    /\ LET c == cur[s]
           kind == Classify(c.f)
           done == [pc |-> "idle", skip |-> {}, cur |-> NoCur]
           next ==
             IF ~c.f.sync \/ ~Decodes(c.f) \/ kind = "self" THEN done
             ELSE IF kind = "trigger" THEN AfterCooldownCheck(s, c)
             ELSE IF kind = "bargain"
                  THEN IF extract_order_id(c.f) # None
                       THEN [pc |-> "freeship", skip |-> {}, cur |-> c]
                       ELSE done
             ELSE done
       IN /\ pc' = [pc EXCEPT ![s] = next.pc]
          /\ cur' = [cur EXCEPT ![s] = next.cur]
          /\ skipped' = skipped \cup next.skip
    /\ UNCHANGED <<now, wire, frames_left, reconnected, enabled,
                   last_heartbeat_response>>
    /\ UNCHANGED <<ledgerVars, storeVars, benchVars, apiVars,
                   engineVars>>
    /\ UNCHANGED <<sent, confirm_log, consumed, notify_log>>

\* XianyuLive.handle_message, bargain card: auto_freeshipping is called and,
\* whatever it returns, _handle_auto_delivery follows
Freeshipping(s, ok) ==
    /\ pc[s] = "freeship"
    /\ LET next == AfterCooldownCheck(s, cur[s])
       IN /\ pc' = [pc EXCEPT ![s] = next.pc]
          /\ cur' = [cur EXCEPT ![s] = next.cur]
          /\ skipped' = skipped \cup next.skip
    /\ UNCHANGED <<now, wire, frames_left, reconnected, enabled,
                   last_heartbeat_response>>
    /\ UNCHANGED <<ledgerVars, storeVars, benchVars, apiVars,
                   engineVars>>
    /\ UNCHANGED <<sent, confirm_log, consumed, notify_log>>

\* every outcome reported as a success
Notify_success(s, c, status) ==
    [s |-> s, order |-> c.order, rule |-> c.rule, status |-> "success"]

\* the record a call of send_delivery_failure_notification leaves
Notify(s, c, status) ==
    [s |-> s, order |-> c.order, rule |-> c.rule, status |-> status]

\* XianyuLive._auto_delivery, from the search text to the matched rule; no
\* rule: _handle_auto_delivery emits the failure notification
AutoDeliveryMatch(s, src, detail) ==
    /\ pc[s] = "match"
    /\ LET c == cur[s]
           rule == MatchRule(SearchText(c.f.item, src),
                             DiscoverSpec(c.f.item, c.order, detail))
       IN IF rule = NoRule
          THEN /\ pc' = [pc EXCEPT ![s] = "idle"]
               /\ cur' = [cur EXCEPT ![s] = NoCur]
               /\ notify_log' = notify_log \cup {Notify(s, c, "failed")}
          ELSE /\ pc' = [pc EXCEPT ![s] = "confirm"]
               /\ cur' = [cur EXCEPT ![s] = [c EXCEPT !.rule = rule]]
               /\ UNCHANGED notify_log
    /\ UNCHANGED <<now, wire, frames_left, reconnected, enabled,
                   last_heartbeat_response>>
    /\ UNCHANGED <<ledgerVars, storeVars, benchVars, apiVars,
                   engineVars>>
    /\ UNCHANGED <<sent, confirm_log, consumed, skipped>>

\* XianyuLive.is_auto_confirm_enabled: the account's setting, and True when
\* the lookup in the store raises
is_auto_confirm_enabled(s, db_ok) ==
    IF db_ok THEN auto_confirm_enabled[s] ELSE TRUE

\* XianyuLive._auto_delivery, confirm step: whether auto_confirm is called
ShouldConfirm(s, order_id, db_ok) ==
    /\ order_id # None
    /\ is_auto_confirm_enabled(s, db_ok)
    /\ ~( /\ confirmed_orders[s][order_id] # NoTime
          /\ now - confirmed_orders[s][order_id] < order_confirm_cooldown )

\* the confirm step with the ledger write lost
RecordConfirm_unrecorded(s, order_id, ok) == confirmed_orders

\* XianyuLive._auto_delivery, confirm step: what a call of auto_confirm
\* leaves in confirmed_orders (a call that failed leaves nothing)
RecordConfirm(s, order_id, ok) ==
    IF ok THEN [confirmed_orders EXCEPT ![s][order_id] = now]
    ELSE confirmed_orders

\* a failed confirmation ends the delivery
AfterConfirm_fatal(ok) == IF ok THEN "content" ELSE "idle"

\* XianyuLive._auto_delivery after the confirm step: whatever auto_confirm
\* returned (it catches its own exceptions), the content step follows
AfterConfirm(ok) == "content"

AutoDeliveryConfirm(s, ok, db_ok) ==
    /\ pc[s] = "confirm"
    /\ LET o == cur[s].order
       IN IF ShouldConfirm(s, o, db_ok)
          THEN /\ confirm_log' = confirm_log \cup
                      {[s |-> s, order |-> o, at |-> now, ok |-> ok]}
               /\ confirmed_orders' = RecordConfirm(s, o, ok)
          ELSE UNCHANGED <<confirm_log, confirmed_orders>>
    /\ pc' = [pc EXCEPT ![s] = AfterConfirm(ok)]
    /\ UNCHANGED <<now, wire, frames_left, reconnected, enabled, cur,
                   last_heartbeat_response>>
    /\ UNCHANGED <<last_delivery_time, storeVars, benchVars, apiVars,
                   engineVars>>
    /\ UNCHANGED <<sent, consumed, notify_log, skipped>>

\* db_manager.consume_batch_data: the head row of the card's block, None
\* when the block is empty, and the block that is left
consume_batch_data_result(rows) == IF rows = <<>> THEN None ELSE <<Head(rows)>>
consume_batch_data_kept(rows) == rows
consume_batch_data_rest(rows) == IF rows = <<>> THEN <<>> ELSE Tail(rows)

\* results the card's API endpoint can give _get_api_card_content
ApiCardResults == {None, <<"A">>}

\* the content step with the order-id test left out
DeliveryContent_any_order(order_id, r, api_result, rows) ==
    IF r.card_type = "api" THEN api_result
    ELSE IF r.card_type = "text" THEN r.text_content
    ELSE consume_batch_data_result(rows)

\* XianyuLive._auto_delivery, content by card type; without an order id no
\* content is produced
DeliveryContent(order_id, r, api_result, rows) ==
    IF order_id = None THEN None
    ELSE IF r.card_type = "api" THEN api_result
    ELSE IF r.card_type = "text" THEN r.text_content
    ELSE consume_batch_data_result(rows)

\* the truth value Python gives the content: None and "" are false
HasContent(content) == content # None /\ content # <<>>

\* XianyuLive.mark_delivery_sent
mark_delivery_sent(s, order_id) ==
    IF order_id # None
    THEN [last_delivery_time EXCEPT ![s][order_id] = now]
    ELSE last_delivery_time

\* XianyuLive._auto_delivery, content production, and the bookkeeping that
\* _handle_auto_delivery does on its return, before the send
AutoDeliveryContent(s, api_result) ==
    /\ pc[s] = "content"
    /\ LET c == cur[s]
           r == RuleById(c.rule)
           content == DeliveryContent(c.order, r, api_result, card_data)
           takes == c.order # None /\ r.card_type = "data"
       IN /\ card_data' = IF takes THEN consume_batch_data_rest(card_data)
                          ELSE card_data
          /\ consumed' = IF takes /\ card_data # <<>>
                         THEN consumed \cup
                              {[s |-> s, order |-> c.order,
                                row |-> Head(card_data)]}
                         ELSE consumed
          /\ IF HasContent(content)
             THEN /\ delivery_times' =
                        [delivery_times EXCEPT ![r.id] = @ + 1]
                  /\ last_delivery_time' = mark_delivery_sent(s, c.order)
                  /\ pc' = [pc EXCEPT ![s] = "send"]
                  /\ cur' = [cur EXCEPT ![s] = [c EXCEPT !.content =
                        process_delivery_content_with_description(
                            content, r.card_description)]]
                  /\ UNCHANGED notify_log
             ELSE /\ notify_log' = notify_log \cup {Notify(s, c, "failed")}
                  /\ pc' = [pc EXCEPT ![s] = "idle"]
                  /\ cur' = [cur EXCEPT ![s] = NoCur]
                  /\ UNCHANGED <<delivery_times, last_delivery_time>>
    /\ UNCHANGED <<now, wire, frames_left, reconnected, enabled,
                   last_heartbeat_response>>
    /\ UNCHANGED <<confirmed_orders, benchVars, apiVars,
                   engineVars>>
    /\ UNCHANGED <<sent, confirm_log, skipped>>

\* XianyuLive._handle_auto_delivery, send_msg and the outcome notification;
\* a send that raises is caught and reported
AutoDeliverySend(s, ok) ==
    /\ pc[s] = "send"
    /\ LET c == cur[s]
       IN /\ sent' = IF ok
                     THEN sent \cup {[s |-> s, order |-> c.order,
                                      checked |-> c.checked,
                                      conn |-> reconnected[s], rule |-> c.rule,
                                      text |-> c.content]}
                     ELSE sent
          /\ notify_log' = notify_log \cup
                 {Notify(s, c, IF ok THEN "success" ELSE "exception")}
    /\ pc' = [pc EXCEPT ![s] = "idle"]
    /\ cur' = [cur EXCEPT ![s] = NoCur]
    /\ UNCHANGED <<now, wire, frames_left, reconnected, enabled,
                   last_heartbeat_response>>
    /\ UNCHANGED <<ledgerVars, storeVars, benchVars, apiVars,
                   engineVars>>
    /\ UNCHANGED <<confirm_log, consumed, skipped>>

\* XianyuLive.main, outer loop: the connection breaks while the receive
\* loop waits for a frame, and the same XianyuLive object connects again
\* (the loop ends instead when the account is found disabled)
Reconnect(s) ==
    /\ pc[s] = "idle"
    /\ ~reconnected[s]
    /\ IF enabled[s]
       THEN /\ reconnected' = [reconnected EXCEPT ![s] = TRUE]
            /\ UNCHANGED pc
       ELSE /\ pc' = [pc EXCEPT ![s] = "stopped"]
            /\ UNCHANGED reconnected
    /\ UNCHANGED <<now, wire, frames_left, enabled, cur,
                   last_heartbeat_response>>
    /\ UNCHANGED <<ledgerVars, storeVars, logVars, benchVars, apiVars,
                   engineVars>>

\* reply_server.update_cookie_status: an administrator enables or disables
\* the account. The session reads the status only when it starts on a frame
\* or connects again, so the change is taken while the receive loop waits
UpdateCookieStatus(s, b) ==
    /\ pc[s] = "idle"
    /\ enabled[s] # b
    /\ enabled' = [enabled EXCEPT ![s] = b]
    /\ UNCHANGED <<now, wire, frames_left, reconnected, pc, cur,
                   last_heartbeat_response>>
    /\ UNCHANGED <<ledgerVars, storeVars, logVars, benchVars, apiVars,
                   engineVars>>

\* ------------------------------------------------------------------------
\* Specification of the receive loop and the delivery pipeline of a session
\* ------------------------------------------------------------------------
DeliveryWire ==
    [s \in Sessions |->
        IF s = "s1"
        THEN { HeartbeatAck,
               TriggerFrame("o1", "i2"), TriggerFrame("o2", "i1"),
               TriggerFrame("o2", "i3"), TriggerFrame(None, "i2"),
               BargainFrame("o1", "i2") }
        ELSE {}]

Init ==
    /\ InitDelivery
    /\ InitEngineIdle
    /\ InitApiIdle("u1", "u1")
    /\ InitBenchIdle
    /\ wire = DeliveryWire
    /\ now = StartTime
    /\ frames_left = MaxFrames

Next ==
    \/ \E d \in TickSteps : Tick(d)
    \/ \E s \in Sessions : \E f \in wire[s] : ReadFrame(s, f)
    \/ \E s \in Sessions : HandleMessage(s)
    \/ \E s \in Sessions : RouteMessage(s)
    \/ \E s \in Sessions, ok \in BOOLEAN : Freeshipping(s, ok)
    \/ \E s \in Sessions, src \in SearchSources, d \in OrderDetails :
          AutoDeliveryMatch(s, src, d)
    \/ \E s \in Sessions, ok \in BOOLEAN, db_ok \in BOOLEAN :
          AutoDeliveryConfirm(s, ok, db_ok)
    \/ \E s \in Sessions, a \in ApiCardResults : AutoDeliveryContent(s, a)
    \/ \E s \in Sessions, ok \in BOOLEAN : AutoDeliverySend(s, ok)
    \/ \E s \in Disturbed : Reconnect(s)
    \/ \E s \in Disturbed, b \in BOOLEAN : UpdateCookieStatus(s, b)

Spec == Init /\ [][Next]_vars

\* ------------------------------------------------------------------------
\* Two sessions whose products deliver from the same data card
\* ------------------------------------------------------------------------
StoreWire ==
    [s \in Sessions |->
        IF s = "s1"
        THEN { TriggerFrame("o1", "i2"), BargainFrame("o2", "i2") }
        ELSE { TriggerFrame("o1", "i2") }]

InitStore ==
    /\ InitDelivery
    /\ InitEngineIdle
    /\ InitApiIdle("u1", "u1")
    /\ InitBenchIdle
    /\ wire = StoreWire
    /\ now = MaxTime - 300
    /\ frames_left = MaxStoreFrames

SpecStore == InitStore /\ [][Next]_vars

\* ------------------------------------------------------------------------
\* Properties of the delivery pipeline
\* ------------------------------------------------------------------------

\* C1: within one session, two auto-delivery triggers for one order that
\* arrive less than delivery_cooldown (600 s) apart produce at most one
\* delivery message, a reconnect in between included: the cooldown checks of
\* any two delivery messages sent for the order are at least 600 s apart
DeliveryCooldownHolds ==
    \A a, b \in sent :
        (a.s = b.s /\ a.order = b.order /\ a # b)
            => \/ a.checked - b.checked >= delivery_cooldown
               \/ b.checked - a.checked >= delivery_cooldown

\* a delivery was sent for an order, the session connected again, and a
\* later trigger for the order was dropped by the cooldown
DeliveryCooldownWitness ==
    \E r \in sent :
        /\ [s |-> r.s, order |-> r.order] \in skipped
        /\ ~r.conn
        /\ reconnected[r.s]

SameOrder(a, b) == a.s = b.s /\ a.order = b.order /\ a # b

\* C2 as stated: auto_confirm is called at most once for an order within the
\* 600 s confirmation cooldown, whatever the outcome of the first call
ConfirmCalledOncePerWindow ==
    \A a, b \in confirm_log :
        SameOrder(a, b)
            => \/ a.at - b.at >= order_confirm_cooldown
               \/ b.at - a.at >= order_confirm_cooldown

\* C2 as amended: after a call of auto_confirm that succeeded for an order,
\* the session makes no further call for the order during the next 600 s
\* (a call that failed is not recorded and may be repeated)
ConfirmedOncePerWindow ==
    \A a, b \in confirm_log :
        (SameOrder(a, b) /\ a.ok)
            => \/ b.at <= a.at /\ ~b.ok
               \/ a.at - b.at >= order_confirm_cooldown
               \/ b.at - a.at >= order_confirm_cooldown

\* a confirmed order whose content failed is triggered again inside the
\* window, and the handler has passed the confirm step without a call
ConfirmedOnceWitness ==
    \E a \in confirm_log :
        /\ a.ok
        /\ pc[a.s] = "content"
        /\ cur[a.s].order = a.order
        /\ a.at < cur[a.s].checked
        /\ now - a.at < order_confirm_cooldown

LedgerTouched(s) ==
    \/ last_delivery_time'[s] # last_delivery_time[s]
    \/ confirmed_orders'[s] # confirmed_orders[s]

HandlingStages == {"freeship", "match", "confirm", "content", "send"}

IsDataDelivery(c) == c.order # None /\ RuleById(c.rule).card_type = "data"

\* no row is handed out twice, the block shrinks by the rows handed out, and
\* every data-card message carries a row its trigger consumed
RowsHandedOutOnce ==
    /\ \A a, b \in consumed : a # b => a.row # b.row
    /\ Len(card_data) + Cardinality(consumed) = Len(InitialCardRows)
    /\ \A r \in sent :
          RuleById(r.rule).card_type = "data"
          => \E c \in consumed :
                /\ c.s = r.s
                /\ c.order = r.order
                /\ r.text = process_delivery_content_with_description(
                                <<c.row>>, RuleById(r.rule).card_description)

\* a trigger that finds the card empty ends with the failure notification
\* and never reaches the send
EmptyCardFails(s) ==
    (pc[s] = "content" /\ pc'[s] # "content" /\ IsDataDelivery(cur[s])
       /\ card_data = <<>>)
    => /\ pc'[s] = "idle"
       /\ sent' = sent
       /\ consumed' = consumed
       /\ Notify(s, cur[s], "failed") \in notify_log'

\* C10: N triggers that consume from a data card of K rows, from one
\* session or several, obtain min(N, K) pairwise distinct rows, the block
\* shrinks by that count, and a trigger that finds the card empty sends
\* nothing and calls the delivery-failure notification
DataCardAtomic ==
    /\ []RowsHandedOutOnce
    /\ [][\A s \in Sessions : EmptyCardFails(s)]_vars

\* both rows were handed out, to triggers of different sessions, and a third
\* trigger on the same rule ended with the failure notification
DataCardAtomicWitness ==
    /\ card_data = <<>>
    /\ \E a, b \in consumed : a.s # b.s /\ a.row # b.row
    /\ \E n \in notify_log :
          /\ n.status = "failed"
          /\ n.order # None
          /\ n.rule # NoRule
          /\ RuleById(n.rule).card_type = "data"

\* ------------------------------------------------------------------------
\* Rule matching as a function of the product, the order and what the
\* collaborators return
\* ------------------------------------------------------------------------
MatchInputs ==
    [item : Items, order : OrderOpt, src : SearchSources,
     detail : OrderDetails]

InitMatch ==
    /\ InitDelivery
    /\ InitEngineIdle
    /\ InitApiIdle("u1", "u1")
    /\ wire = [s \in Sessions |-> {}]
    /\ now = StartTime
    /\ frames_left = 0
    /\ args \in MatchInputs
    /\ result = <<>>

\* XianyuLive._auto_delivery, search text, spec discovery and rule matching
ApplyMatch ==
    /\ result = <<>>
    /\ result' = <<MatchRule(SearchText(args.item, args.src),
                             DiscoverSpec(args.item, args.order, args.detail))>>
    /\ UNCHANGED <<deliveryVars, args, apiVars, engineVars>>

NextMatch == ApplyMatch

SpecMatch == InitMatch /\ [][NextMatch]_vars

MatchingRules(a) ==
    {r \in DeliveryRules : IsSubstr(r.keyword, SearchText(a.item, a.src))}

SpecKnown(a) ==
    LET spec == DiscoverSpec(a.item, a.order, a.detail)
    IN spec.spec_name # "" /\ spec.spec_value # ""

MatchesOrderSpec(r, a) ==
    LET spec == DiscoverSpec(a.item, a.order, a.detail)
    IN /\ r.is_multi_spec
       /\ r.spec_name = spec.spec_name
       /\ r.spec_value = spec.spec_value

\* C9: when a multi-spec rule matching the order's specs and a generic rule
\* both match the search text, the spec-matching rule is selected; when no
\* order spec is obtainable and a generic rule matches, the selected rule is
\* not a multi-spec rule
MultiSpecFallback ==
    result # <<>> =>
        /\ (SpecKnown(args)
              /\ \E r \in MatchingRules(args) : MatchesOrderSpec(r, args))
           => /\ result[1] # NoRule
              /\ MatchesOrderSpec(RuleById(result[1]), args)
        /\ (~SpecKnown(args)
              /\ \E r \in MatchingRules(args) : ~r.is_multi_spec)
           => /\ result[1] # NoRule
              /\ ~RuleById(result[1]).is_multi_spec

\* ------------------------------------------------------------------------
\* The reply selector as a function of the message, the keyword table and
\* what the collaborators return
\* ------------------------------------------------------------------------
UserNameVar == "{send_user_name}"
UserIdVar == "{send_user_id}"
MessageVar == "{send_message}"
UnknownVar == "{unknown}"
FormatVars == {UserNameVar, UserIdVar, MessageVar}

\* the replacement fields a template of the model can carry
IsVar(tok) == tok \in FormatVars \cup {UnknownVar}

RECURSIVE FormatFields(_, _, _, _)
FormatFields(reply, name, uid, msg) ==
    IF reply = <<>> THEN <<>>
    ELSE LET tok == Head(reply)
             val == IF tok = UserNameVar THEN name
                    ELSE IF tok = UserIdVar THEN uid
                    ELSE IF tok = MessageVar THEN msg
                    ELSE <<tok>>
         IN val \o FormatFields(Tail(reply), name, uid, msg)

\* str.format with the three named fields; a template that names another
\* field raises, and the callers then return the template unformatted
FormatReply(reply, name, uid, msg) ==
    IF \E i \in 1..Len(reply) : IsVar(reply[i]) /\ reply[i] \notin FormatVars
    THEN reply
    ELSE FormatFields(reply, name, uid, msg)

Keyword(id, kw, reply, item) ==
    [id |-> id, keyword |-> kw, reply |-> reply, item_id |-> item]

\* the keyword rules an account may hold; the endpoints that store them
\* reject an empty keyword and an empty reply
KeywordRules ==
    { Keyword(1, <<"h","i">>, <<"r1", UserNameVar>>, "i1"),
      Keyword(2, <<"H">>, <<"r2">>, "i1"),
      Keyword(3, <<"h","i","x">>, <<"r3", UnknownVar>>, None),
      Keyword(4, <<"i">>, <<"r4", MessageVar>>, None),
      Keyword(5, <<"x">>, <<"r5">>, "i2") }

\* longer keyword first; rules of equal length in the order of their rows
KeywordBefore(a, b) ==
    \/ Len(a.keyword) > Len(b.keyword)
    \/ Len(a.keyword) = Len(b.keyword) /\ a.id < b.id

RECURSIVE SortKeywords(_)
SortKeywords(S) ==
    IF S = {} THEN <<>>
    ELSE LET first == CHOOSE k \in S :
                         \A q \in S \ {k} : KeywordBefore(k, q)
         IN <<first>> \o SortKeywords(S \ {first})

\* db_manager.get_keywords_with_item_id: the account's rules, longest
\* keyword first
get_keywords_with_item_id(table) == SortKeywords(table)

KeywordHit(k, send_message) == IsSubstr(Lower(k.keyword), Lower(send_message))

FirstHit(keywords, hit(_)) ==
    IF \E i \in 1..Len(keywords) : hit(keywords[i])
    THEN LET i == CHOOSE j \in 1..Len(keywords) :
                     /\ hit(keywords[j])
                     /\ \A m \in 1..(j - 1) : ~hit(keywords[m])
         IN <<keywords[i]>>
    ELSE <<>>

\* get_keyword_reply with the two passes in the wrong order
get_keyword_reply_global_first(table, name, uid, send_message, item_id) ==
    LET keywords == get_keywords_with_item_id(table)
        ItemHit(k) == k.item_id = item_id /\ KeywordHit(k, send_message)
        GlobalHit(k) == k.item_id = None /\ KeywordHit(k, send_message)
        scoped == FirstHit(keywords, ItemHit)
        global == FirstHit(keywords, GlobalHit)
    IN IF global # <<>>
       THEN FormatReply(global[1].reply, name, uid, send_message)
       ELSE IF item_id # None /\ scoped # <<>>
       THEN FormatReply(scoped[1].reply, name, uid, send_message)
       ELSE None

\* XianyuLive.get_keyword_reply
get_keyword_reply(table, name, uid, send_message, item_id) ==
    LET keywords == get_keywords_with_item_id(table)
        ItemHit(k) == k.item_id = item_id /\ KeywordHit(k, send_message)
        GlobalHit(k) == k.item_id = None /\ KeywordHit(k, send_message)
        scoped == FirstHit(keywords, ItemHit)
        global == FirstHit(keywords, GlobalHit)
    IN IF keywords = <<>> THEN None
       ELSE IF item_id # None /\ scoped # <<>>
       THEN FormatReply(scoped[1].reply, name, uid, send_message)
       ELSE IF global # <<>>
       THEN FormatReply(global[1].reply, name, uid, send_message)
       ELSE None

\* db_manager.get_default_reply: nothing stored, or the stored settings
DefaultReplySettings ==
    { [stored |-> FALSE, enabled |-> FALSE, reply_content |-> <<>>],
      [stored |-> TRUE, enabled |-> FALSE, reply_content |-> <<"d">>],
      [stored |-> TRUE, enabled |-> TRUE, reply_content |-> <<>>],
      [stored |-> TRUE, enabled |-> TRUE, reply_content |-> <<"d", UserIdVar>>] }

\* XianyuLive.get_default_reply
get_default_reply(settings, name, uid, send_message) ==
    IF ~settings.stored \/ ~settings.enabled THEN None
    ELSE IF settings.reply_content = <<>> THEN None
    ELSE FormatReply(settings.reply_content, name, uid, send_message)

\* the truth value Python gives a reply: None and "" are false
IsReply(reply) == reply # None /\ reply # <<>>

\* str.format raises on a replacement field it has no argument for
FormatRaises(reply) ==
    \E i \in 1..Len(reply) : IsVar(reply[i]) /\ reply[i] \notin FormatVars

\* XianyuLive.get_api_reply, given data.send_msg of a response with code
\* 200 (None when the API gave none): send_msg.format(...) stands inside
\* the try of the whole call, whose except returns None
get_api_reply(send_msg, name, uid, send_message) ==
    IF ~IsReply(send_msg) THEN None
    ELSE IF FormatRaises(send_msg) THEN None
    ELSE FormatFields(send_msg, name, uid, send_message)

\* XianyuLive.handle_message, reply precedence: the reply of the external
\* API if there is one, else keyword, else AI, else default
SelectReply(a) ==
    LET kw == get_keyword_reply(a.table, a.name, a.uid, a.text, a.item)
        api == get_api_reply(a.api, a.name, a.uid, a.text)
    IN IF IsReply(api) THEN api
       ELSE IF IsReply(kw) THEN kw
       ELSE IF IsReply(a.ai) THEN a.ai
       ELSE get_default_reply(a.settings, a.name, a.uid, a.text)

ReplyTexts == { <<"H","i">>, <<"h","I","x">>, <<"X">>, <<"y">> }

ReplyInputs ==
    [table : SUBSET KeywordRules, text : ReplyTexts, item : Items,
     name : {<<"n">>}, uid : {<<"u">>},
     api : {None, <<"p", UserIdVar>>, <<"p", UnknownVar>>},
     ai : {None, <<"g">>},
     settings : DefaultReplySettings]

InitReply ==
    /\ InitDelivery
    /\ InitEngineIdle
    /\ InitApiIdle("u1", "u1")
    /\ wire = [s \in Sessions |-> {}]
    /\ now = StartTime
    /\ frames_left = 0
    /\ args \in ReplyInputs
    /\ result = <<>>

ApplyReply ==
    /\ result = <<>>
    /\ result' = <<SelectReply(args)>>
    /\ UNCHANGED <<deliveryVars, args, apiVars, engineVars>>

NextReply == ApplyReply

SpecReply == InitReply /\ [][NextReply]_vars

ContainedIn(kw, text) ==
    \E i \in 0..(Len(text) - Len(kw)) :
        \A j \in 1..Len(kw) : LowerChar(text[i + j]) = LowerChar(kw[j])

Longest(S) == {k \in S : \A q \in S : Len(k.keyword) >= Len(q.keyword)}

RepliesOf(S, a) == {FormatReply(k.reply, a.name, a.uid, a.text) : k \in S}

ItemHits(a) ==
    {k \in a.table : k.item_id = a.item /\ ContainedIn(k.keyword, a.text)}

GlobalHits(a) ==
    {k \in a.table : k.item_id = None /\ ContainedIn(k.keyword, a.text)}

DefaultUsable(a) ==
    a.settings.stored /\ a.settings.enabled /\ a.settings.reply_content # <<>>

save_cookie(row, value, owner) ==
    [value |-> value,
     user_id |-> IF owner = None THEN row.user_id ELSE owner]

CurrentUserId_admin(i) == IF user_id[i] # None THEN user_id[i] ELSE "u1"

\* update_config_cookies: current_user_id, the owner passed to save_cookie
CurrentUserId(i) == IF user_id[i] # None THEN user_id[i] ELSE None

\* the set-cookie merge that follows every response, and
\* update_config_cookies when the headers brought something
PersistCookies(i, new_cookies) ==
    IF new_cookies = {}
    THEN UNCHANGED cookieVars
    ELSE LET merged == MergeCookies(cookies_str[i], new_cookies) IN
         /\ cookies_str' = [cookies_str EXCEPT ![i] = merged]
         /\ cookie_store' =
                save_cookie(cookie_store, merged, CurrentUserId(i))
         /\ last_save' = Save(i, CurrentUserId(i))

\* refresh_token: the response carries a new access token
RefreshSucceeded(r) ==
    r.kind = "dict" /\ AnySuccess(r.ret) /\ r.accessToken # None

RefreshedToken_kept(token, r) == token

\* refresh_token: self.current_token after the response
RefreshedToken(token, r) ==
    IF RefreshSucceeded(r) THEN r.accessToken ELSE token

\* refresh_token
refresh_token(i, r) ==
    /\ PersistCookies(i, r.set_cookie)
    /\ current_token' = [current_token EXCEPT ![i] = RefreshedToken(@, r)]
    /\ last_token_refresh_time' =
           [last_token_refresh_time EXCEPT
               ![i] = IF RefreshSucceeded(r) THEN now ELSE @]

\* "not self.current_token or (time.time() - self.last_token_refresh_time)
\*  >= self.token_refresh_interval"
TokenStale(i) ==
    \/ current_token[i] = None
    \/ now - last_token_refresh_time[i] >= token_refresh_interval

\* a signed call is issued; the item endpoints build their instance anew
\* from the stored cookie.  The instances share nothing but the account's
\* row, which each step writes in one save_cookie, so the calls are taken
\* one after the other; update_cookie still falls between their steps
StartCall(i, fn) ==
    /\ \A j \in Instances : call[j].pc = "idle"
    /\ fn \in CallsOf(i)
    /\ call' = [call EXCEPT ![i] = [IdleCall EXCEPT !.fn = fn,
                                                    !.pc = "enter"]]
    /\ IF i = "adhoc"
       THEN /\ cookies_str' = [cookies_str EXCEPT ![i] = cookie_store.value]
            /\ current_token' = [current_token EXCEPT ![i] = None]
            /\ last_token_refresh_time' =
                   [last_token_refresh_time EXCEPT ![i] = 0]
       ELSE UNCHANGED <<cookies_str, tokenVars>>
    /\ UNCHANGED <<engineVars, deliveryVars, benchVars, cookie_store, last_save, user_id>>

\* get_item_info / get_item_list_info from the entry to the POST: the
\* retry_count check, then the forced refresh of a retry or the refresh of
\* a stale token; r is the answer of the login-token API, of no effect (and
\* so taken as one value) where no refresh is made
EnterCall(i, r) ==
    LET c == call[i] IN
    /\ c.pc = "enter"
    /\ (c.retry_count >= max_retry_count
            \/ ~(c.retry_count > 0 \/ TokenStale(i)))
           => r = RefreshResponse("exception", <<>>, {}, None)
    /\ IF c.retry_count >= max_retry_count
       THEN /\ call' = [call EXCEPT ![i] =
                   [c EXCEPT !.pc = "done",
                             !.ret = ErrorResult(TooManyRetries,
                                                 NoResponse)]]
            /\ UNCHANGED <<cookieVars, tokenVars>>
       ELSE IF c.retry_count > 0 \/ TokenStale(i)
       THEN /\ refresh_token(i, r)
            /\ call' = [call EXCEPT ![i] =
                   [c EXCEPT !.pc = "post",
                             !.refresh = Refresh(TRUE, RefreshSucceeded(r),
                                                 r.accessToken, now,
                                                 current_token[i])]]
       ELSE /\ call' = [call EXCEPT ![i] =
                   [c EXCEPT !.pc = "post", !.refresh = NoRefresh]]
            /\ UNCHANGED <<cookieVars, tokenVars>>
    /\ UNCHANGED <<engineVars, deliveryVars, benchVars, user_id>>

\* get_item_info, what follows the response: "return", "sleep_retry" (the
\* retry after asyncio.sleep(0.5)) or "retry"
ItemInfoBranch(res) ==
    IF res.kind = "exception" THEN "sleep_retry"
    ELSE IF res.kind = "dict"
    THEN IF ~AnySuccess(res.ret) THEN "sleep_retry" ELSE "return"
    ELSE "retry"

\* get_item_list_info, what follows the response; a response that is no
\* JSON object raises at res_json.get and is caught by the except clause
ItemListBranch(res) ==
    IF res.kind # "dict" THEN "sleep_retry"
    ELSE IF res.ret # <<>> /\ res.ret[1] = SuccessMarker THEN "return"
    ELSE LET error_msg == IF res.ret # <<>> THEN res.ret[1] ELSE <<>> IN
         IF \/ IsSubstr(ExoiredMarker, error_msg)
            \/ IsSubstr(TokenWord, Lower(error_msg))
         THEN "sleep_retry"
         ELSE "fail"

Branch(fn, res) ==
    IF fn = "get_item_info" THEN ItemInfoBranch(res) ELSE ItemListBranch(res)

\* get_item_info / get_item_list_info from the POST on: the set-cookie
\* merge, then the return or the recursive call
PostCall(i, res) ==
    LET c == call[i]
        branch == Branch(c.fn, res)
        res_json == Response(res.kind, res.ret, {})
        base == [c EXCEPT !.posts = @ + 1, !.prev = c.res, !.res = res_json]
    IN
    /\ c.pc = "post"
    /\ PersistCookies(i, res.set_cookie)
    /\ call' = [call EXCEPT ![i] =
           CASE branch = "return" ->
                    [base EXCEPT !.pc = "done", !.ret = OkResult(res_json)]
             [] branch = "fail" ->
                    [base EXCEPT !.pc = "done",
                                 !.ret = ErrorResult(CallFailed, res_json)]
             [] branch = "sleep_retry" ->
                    [base EXCEPT !.pc = "enter", !.retry_count = @ + 1,
                                 !.slept = retry_sleep_ms]
             [] branch = "retry" ->
                    [base EXCEPT !.pc = "enter", !.retry_count = @ + 1,
                                 !.slept = 0]]
    /\ UNCHANGED <<engineVars, deliveryVars, benchVars, user_id, tokenVars>>

\* the caller has taken the result; the item endpoints drop their instance
ReturnCall(i) ==
    /\ call[i].pc = "done"
    /\ call' = [call EXCEPT ![i] = IdleCall]
    /\ IF i = "adhoc"
       THEN /\ cookies_str' = [cookies_str EXCEPT ![i] = InitialCookies]
            /\ current_token' = [current_token EXCEPT ![i] = None]
            /\ last_token_refresh_time' =
                   [last_token_refresh_time EXCEPT ![i] = 0]
       ELSE UNCHANGED <<cookies_str, tokenVars>>
    /\ UNCHANGED <<engineVars, deliveryVars, benchVars, cookie_store, last_save, user_id>>

\* reply_server.update_cookie: only the owner's request passes; the live
\* session takes the new cookie up between two calls
update_cookie(u, value) ==
    /\ u = cookie_store.user_id
    /\ call["live"].pc = "idle"
    /\ cookie_store' = save_cookie(cookie_store, value, u)
    /\ last_save' = Save("admin", u)
    /\ cookies_str' = [cookies_str EXCEPT !["live"] = value]
    /\ UNCHANGED <<engineVars, deliveryVars, benchVars, user_id, tokenVars, call>>

\* a refresh interval (an hour) passes; a signed call, four attempts at
\* most, lasts seconds, so the step is taken between calls
Elapse ==
    /\ \A i \in Instances : call[i].pc = "idle"
    /\ now + token_refresh_interval <= MaxApiTime
    /\ now' = now + token_refresh_interval
    /\ UNCHANGED <<wire, frames_left, reconnected, enabled, pc, cur,
                   last_heartbeat_response>>
    /\ UNCHANGED <<ledgerVars, storeVars, logVars, benchVars, apiVars,
                   engineVars>>

InitApi ==
    /\ InitDelivery
    /\ InitEngineIdle
    /\ InitBenchIdle
    /\ wire = [s \in Sessions |-> {}]
    /\ frames_left = 0
    /\ now = token_refresh_interval
    /\ \E owner \in Users : \E u \in {owner, None} : InitApiIdle(owner, u)

NextApi ==
    \/ \E i \in Instances : \E fn \in CallsOf(i) : StartCall(i, fn)
    \/ \E i \in Instances, r \in RefreshResponses : EnterCall(i, r)
    \/ \E i \in Instances, res \in ApiResponses : PostCall(i, res)
    \/ \E i \in Instances : ReturnCall(i)
    \/ \E u \in Users : update_cookie(u, InitialCookies)
    \/ Elapse

SpecApi == InitApi /\ [][NextApi]_vars

\* ------------------------------------------------------------------------
\* Properties of the signed API client and of the cookie store
\* ------------------------------------------------------------------------

\* the response is a JSON object whose ret array carries the success marker
IsSuccess(res) == res.kind = "dict" /\ AnySuccess(res.ret)

\* get_item_info has returned, its latest attempt succeeded and the attempt
\* before it failed with FAIL_SYS_TOKEN_EXPIRED
RetriedAfterTokenExpiry(i) ==
    /\ call[i].fn = "get_item_info"
    /\ call[i].pc = "done"
    /\ call[i].prev.kind = "dict"
    /\ call[i].prev.ret = <<TokenExpiredRet>>
    /\ IsSuccess(call[i].res)

\* C5 as stated: a get_item_info call that fails with a token-expired
\* response and succeeds on the retry returns the second response, and the
\* refresh between the two attempts has set current_token and
\* last_token_refresh_time
TokenRefreshTransparent ==
    \A i \in Instances :
        RetriedAfterTokenExpiry(i) =>
            /\ call[i].ret = OkResult(call[i].res)
            /\ call[i].refresh.done
            /\ call[i].refresh.ok
            /\ current_token[i] = call[i].refresh.token
            /\ last_token_refresh_time[i] = call[i].refresh.at

\* C5: a get_item_info call that fails with a token-expired response and
\* succeeds on the retry returns the second response; a refresh was made
\* between the two attempts, and it has set current_token and
\* last_token_refresh_time if it succeeded and has left current_token as it
\* was if it failed
TokenRefreshTransparentIfRefreshed ==
    \A i \in Instances :
        RetriedAfterTokenExpiry(i) =>
            /\ call[i].ret = OkResult(call[i].res)
            /\ call[i].refresh.done
            /\ IF call[i].refresh.ok
               THEN /\ current_token[i] = call[i].refresh.token
                    /\ last_token_refresh_time[i] = call[i].refresh.at
               ELSE current_token[i] = call[i].refresh.before

\* the live session's call failed with FAIL_SYS_TOKEN_EXPIRED, the refresh
\* replaced the token, and the retry's response was returned
TokenRefreshTransparentWitness ==
    /\ RetriedAfterTokenExpiry("live")
    /\ call["live"].refresh.ok
    /\ call["live"].refresh.before # None
    /\ call["live"].refresh.before # call["live"].refresh.token
    /\ current_token["live"] = call["live"].refresh.token
    /\ call["live"].ret = OkResult(call["live"].res)

\* C6: a signed call makes at most 4 POSTs (the first and 3 retries), every
\* retry's POST comes after a forced refresh and a wait of 500 ms, and a
\* call whose 4 POSTs all failed returns an error
BoundedRetries ==
    \A i \in Instances :
        /\ call[i].posts <= 4
        /\ (call[i].pc = "post") => call[i].retry_count <= 3
        /\ (call[i].pc = "post" /\ call[i].retry_count > 0) =>
               (call[i].refresh.done /\ call[i].slept = 500)
        /\ (call[i].pc = "done" /\ call[i].posts = 4
                /\ ~IsSuccess(call[i].res)) =>
               call[i].ret.error # None

\* the expiry markers: FAIL_SYS_TOKEN_EXPIRED, 令牌过期, Session过期
ExpiryMarkers ==
    { SubSeq(TokenExpiredRet, 1, 22),
      SubSeq(TokenExpiredRet, 25, 28),
      SubSeq(SessionExpiredRet, 27, 35) }

IndicatesExpiry(res) ==
    /\ res.kind = "dict"
    /\ \E k \in 1..Len(res.ret) :
           \E m \in ExpiryMarkers : IsSubstr(m, res.ret[k])

\* C7: a signed call (item detail, item list) whose response carries an
\* expiry marker is retried after a forced refresh unless its 3 retries are
\* used up, and a call that fails with FAIL_SYS_TOKEN_EXPIRED and then
\* succeeds returns the success
ExpiryTriggersRetry ==
    \A i \in Instances :
        /\ (call[i].pc = "done" /\ IndicatesExpiry(call[i].res)) =>
               call[i].posts = 4
        /\ (call[i].pc = "post" /\ IndicatesExpiry(call[i].res)) =>
               call[i].refresh.done
        /\ (call[i].pc = "done" /\ call[i].prev = Response("dict",
                                      <<TokenExpiredRet>>, {})
                /\ IsSuccess(call[i].res)) =>
               call[i].ret = OkResult(call[i].res)

\* every save_cookie a session made passed the account's owner or none
SessionSavesKeepOwner ==
    last_save.by \in Instances =>
        last_save.user_id \in {None, cookie_store.user_id}

OwnerUnchanged == cookie_store'.user_id = cookie_store.user_id

\* C8: whatever cookie refreshes the sessions persist, the account's owner
\* in the store stays what it was at creation: a session's save_cookie
\* passes the owner or no owner, and no step rewrites the owner
CookieOwnerPreserved ==
    /\ []SessionSavesKeepOwner
    /\ [][OwnerUnchanged]_vars

\* an account of user u2: the live session has persisted a merged cookie
\* passing u2, then the endpoint's instance has persisted one passing no
\* owner, and the owner is still u2
CookieOwnerPreservedWitness ==
    /\ cookie_store.user_id = "u2"
    /\ user_id["live"] = "u2"
    /\ cookies_str["live"] # InitialCookies
    /\ last_save = Save("adhoc", None)
    /\ cookie_store.value # InitialCookies

\* ------------------------------------------------------------------------
\* XianyuLive.send_token_refresh_notification and the tasks that call it
\* ------------------------------------------------------------------------
MaxNotifyTime == 900     \* the clock of the notification model stops here
MaxDispatches == 3       \* notifications that reach a channel, in one run
NotifySteps == {300}

notification_cooldown == 300

\* no text counts as a normal expiry
is_normal_token_expiry_never(error_message) == FALSE

\* only the six markers of the glossary count
is_normal_token_expiry_glossary(error_message) ==
    \E i \in {1, 2, 5, 6, 8, 9} :
        IsSubstr(normal_expiry_keywords[i], error_message)

\* XianyuLive._is_normal_token_expiry
is_normal_token_expiry(error_message) ==
    \E i \in 1..Len(normal_expiry_keywords) :
        IsSubstr(normal_expiry_keywords[i], error_message)


Dispatch(c, at, by) ==
    [type |-> c.notification_type, text |-> c.error_message, at |-> at,
     by |-> by]

\* send_token_refresh_notification up to its first await on a channel: the
\* normal-expiry filter, the cooldown test against the ledger, the lookup
\* of the account's channels
EnterNotification(task, c) ==
    /\ notifying[task].pc = "idle"
    /\ Cardinality(dispatched) < MaxDispatches
    /\ LET skip == is_normal_token_expiry(c.error_message)
           cooling == now - last_notification_time[c.notification_type]
                         < notification_cooldown
           outcome == IF skip THEN "skipped"
                      ELSE IF cooling THEN "cooldown"
                      ELSE IF ~notifications THEN "no_channel"
                      ELSE "sending"
       IN  /\ handled' = Disposal(c, outcome)
           /\ notifying' =
                 IF outcome = "sending"
                 THEN [notifying EXCEPT ![task] =
                          [pc |-> "sending", call |-> c,
                           current_time |-> now]]
                 ELSE notifying
    /\ UNCHANGED <<last_notification_time, notifications, dispatched>>
    /\ UNCHANGED <<deliveryVars, benchVars, apiVars, lifeVars>>

\* the channel sends return: when one of them went through, the ledger
\* takes the time that was read on entry
FinishNotification(task, notification_sent) ==
    /\ notifying[task].pc = "sending"
    /\ LET n == notifying[task]
       IN  IF notification_sent
           THEN /\ dispatched' = dispatched \cup {Dispatch(n.call, now, task)}
                /\ last_notification_time' =
                      [last_notification_time EXCEPT
                          ![n.call.notification_type] = n.current_time]
           ELSE UNCHANGED <<dispatched, last_notification_time>>
    /\ notifying' = [notifying EXCEPT ![task] = IdleNotification]
    /\ UNCHANGED <<notifications, handled>>
    /\ UNCHANGED <<deliveryVars, benchVars, apiVars, lifeVars>>

NotifyTick(d) ==
    /\ now + d <= MaxNotifyTime
    /\ now' = now + d
    /\ UNCHANGED <<wire, frames_left, reconnected, enabled, pc, cur,
                   last_heartbeat_response>>
    /\ UNCHANGED <<ledgerVars, storeVars, logVars, benchVars, apiVars,
                   engineVars>>

InitNotify ==
    /\ InitDelivery
    /\ InitBenchIdle
    /\ InitApiIdle("u1", "u1")
    /\ wire = [s \in Sessions |-> {}]
    /\ frames_left = 0
    /\ now = notification_cooldown
    /\ InitLifeIdle
    /\ last_notification_time = [t \in NotificationTypes |-> 0]
    /\ notifications \in BOOLEAN
    /\ notifying = [t \in Tasks |-> IdleNotification]
    /\ dispatched = {}
    /\ handled = NoDisposal

NextNotify ==
    \/ \E task \in Tasks : \E c \in NotificationCalls(task) :
          EnterNotification(task, c)
    \/ \E task \in Tasks, ok \in BOOLEAN : FinishNotification(task, ok)
    \/ \E d \in NotifySteps : NotifyTick(d)

SpecNotify == InitNotify /\ [][NextNotify]_vars

\* the benign-expiry markers as the glossary lists them
GlossaryMarkers ==
    {
      \* 'FAIL_SYS_TOKEN_EXOIRED::令牌过期'
      <<"F", "A", "I", "L", "_", "S", "Y", "S", "_", "T", "O", "K",
       "E", "N", "_", "E", "X", "O", "I", "R", "E", "D", ":", ":",
       "ling", "pai", "guo", "qi">>,
      \* 'FAIL_SYS_TOKEN_EXPIRED::令牌过期'
      <<"F", "A", "I", "L", "_", "S", "Y", "S", "_", "T", "O", "K",
       "E", "N", "_", "E", "X", "P", "I", "R", "E", "D", ":", ":",
       "ling", "pai", "guo", "qi">>,
      \* 'FAIL_SYS_SESSION_EXPIRED::Session过期'
      <<"F", "A", "I", "L", "_", "S", "Y", "S", "_", "S", "E", "S",
       "S", "I", "O", "N", "_", "E", "X", "P", "I", "R", "E", "D", ":",
       ":", "S", "e", "s", "s", "i", "o", "n", "guo", "qi">>,
      \* '令牌过期'
      <<"ling", "pai", "guo", "qi">>,
      \* 'Session过期'
      <<"S", "e", "s", "s", "i", "o", "n", "guo", "qi">>,
      \* 'Token定时刷新失败，将自动重试'
      <<"T", "o", "k", "e", "n", "ding", "shi2", "shua", "xin",
       "shi1", "bai", "douhao", "jiang", "zi", "dong", "chong", "shi4">>
    }

CarriesGlossaryMarker(text) == \E g \in GlossaryMarkers : IsSubstr(g, text)

\* C11: no notification that reaches a channel has a text that carries a
\* benign marker, so a session whose failures are all benign expiries or
\* scheduled-refresh failures dispatches nothing
BenignExpiryIsQuiet ==
    \A d \in dispatched : ~CarriesGlossaryMarker(d.text)

\* a benign report or the scheduled-refresh report was made and dropped
\* in a session whose other reports do reach a channel
BenignExpiryIsQuietWitness ==
    /\ handled.outcome = "skipped"
    /\ handled.text \in {ScheduledFailureText,
                          RefreshFailedText(TokenExpiredRet)}
    /\ dispatched # {}

\* C12: two notifications of one kind that reach a channel are at least
\* notification_cooldown seconds apart
NotificationsRateLimited ==
    \A d1, d2 \in dispatched :
        (d1 # d2 /\ d1.type = d2.type)
           => \/ d1.at - d2.at >= notification_cooldown
              \/ d2.at - d1.at >= notification_cooldown

\* the markers whose presence makes the source treat a text as benign
BenignMarkers ==
    {
      \* 'FAIL_SYS_TOKEN_EXOIRED'
      <<"F", "A", "I", "L", "_", "S", "Y", "S", "_", "T", "O", "K",
       "E", "N", "_", "E", "X", "O", "I", "R", "E", "D">>,
      \* 'FAIL_SYS_TOKEN_EXPIRED'
      <<"F", "A", "I", "L", "_", "S", "Y", "S", "_", "T", "O", "K",
       "E", "N", "_", "E", "X", "P", "I", "R", "E", "D">>,
      \* '令牌过期'
      <<"ling", "pai", "guo", "qi">>,
      \* 'FAIL_SYS_SESSION_EXPIRED'
      <<"F", "A", "I", "L", "_", "S", "Y", "S", "_", "S", "E", "S",
       "S", "I", "O", "N", "_", "E", "X", "P", "I", "R", "E", "D">>,
      \* 'Session过期'
      <<"S", "e", "s", "s", "i", "o", "n", "guo", "qi">>,
      \* 'Token定时刷新失败'
      <<"T", "o", "k", "e", "n", "ding", "shi2", "shua", "xin",
       "shi1", "bai">>
    }

CarriesBenignMarker(text) == \E k \in BenignMarkers : IsSubstr(k, text)

\* C13 as stated: a text is dropped as benign only when it carries one of
\* the glossary's markers
BenignSetIsGlossary ==
    handled.outcome = "skipped" => CarriesGlossaryMarker(handled.text)

\* C13, amended: a text is dropped as benign exactly when it carries one
\* of the glossary's markers, one of the bare codes or the prefix of the
\* scheduled-refresh text; every other text goes on to the cooldown test
BenignSetIsSourceKeywords ==
    handled # NoDisposal =>
        /\ handled.outcome = "skipped" <=> CarriesBenignMarker(handled.text)
        /\ handled.outcome \in {"skipped", "cooldown", "no_channel",
                                 "sending"}

\* an expiry in words outside the glossary was dropped, and a text with no
\* marker went through to a channel
BenignSetIsSourceKeywordsWitness ==
    /\ handled = Disposal(NotificationCall(
                              RefreshFailedText(SessionInvalidRet),
                              "token_refresh_failed"), "skipped")
    /\ \E d \in dispatched : d.text = RefreshFailedText(IllegalAccessRet)

\* ------------------------------------------------------------------------
\* XianyuLive.handle_message, from the direction test to the reply: which
\* stages one chat message sets off, in the order the handler calls them
\* ------------------------------------------------------------------------
\* '什么时候发货?'  (when will you ship?)
AskShippingText == <<"shen", "me", "shi", "hou", "fa", "huo", "?">>

\* the texts handle_message drops as system messages
IgnoredMessages ==
    { \* '[我已拍下，待付款]'
      <<"[", "wo", "yi", "pai", "xia", "cm", "dai", "fu", "kuan", "]">>,
      \* '[你关闭了订单，钱款已原路退返]'
      <<"[", "ni", "guan", "bi", "le", "ding", "dan", "cm", "qian", "kuan",
        "yi", "yuan", "lu", "tui", "fan", "]">>,
      \* '发来一条消息'
      <<"fa", "lai", "yi1", "tiao", "xiao", "xi">>,
      \* '发来一条新消息'
      <<"fa", "lai", "yi1", "tiao", "xin", "xiao", "xi">>,
      \* '[买家确认收货，交易成功]'
      <<"[", "mai", "jia", "que", "ren", "shou", "huo", "cm", "jiao",
        "yi4", "cheng", "gong", "]">>,
      \* '快给ta一个评价吧~' and '快给ta一个评价吧～'
      <<"kuai", "gei", "t", "a", "yi1", "ge", "ping", "jia4", "ba", "~">>,
      <<"kuai", "gei", "t", "a", "yi1", "ge", "ping", "jia4", "ba", "~~">>,
      \* '卖家人不错？送Ta闲鱼小红花'
      <<"mai4", "jia", "ren2", "bu", "cuo", "??", "song", "T", "a", "xian",
        "yu", "xiaoo", "hong", "hua">>,
      \* '[你已确认收货，交易成功]'
      <<"[", "ni", "yi", "que", "ren", "shou", "huo", "cm", "jiao", "yi4",
        "cheng", "gong", "]">>,
      \* '[你已发货]'
      <<"[", "ni", "yi", "fa", "huo", "]">> }

RouteFrames ==
    { TriggerFrame("o1", "i1"), TriggerFrame(None, "i1"),
      BargainFrame("o1", "i1"), BargainFrame(None, "i1"),
      ChatFrame(TriggerPaidShort, "i1"), ChatFrame(TriggerRemember, "i1"),
      ChatFrame(AskShippingText, "i1"), ChatFrame(CardMessageText, "i1"),
      ChatFrame(<<"[", "ni", "yi", "fa", "huo", "]">>, "i1"),
      Frame(0, TRUE, "me", AskShippingText, <<>>, None, None, None, "i1"),
      PlainResponse }

\* a message, the AUTO_REPLY switches of the configuration, and whether
\* the reply API, the keyword rules and the AI produce a reply
RouteInputs ==
    [f : RouteFrames, auto_reply : BOOLEAN, api_enabled : BOOLEAN,
     api_reply : BOOLEAN, keyword_reply : BOOLEAN, ai_reply : BOOLEAN,
     freeshipping_ok : BOOLEAN]

\* the stages of the reply selector
ReplyStages == {"api", "keyword", "ai", "default"}

\* a failed auto_freeshipping ends the handling of the card
AfterFreeshipping_fatal(ok) == IF ok THEN <<"delivery">> ELSE <<>>

\* handle_message, bargain card: the result of auto_freeshipping is logged,
\* and _handle_auto_delivery is called either way
AfterFreeshipping(ok) == <<"delivery">>

\* handle_message, '[卡片消息]' with the bargain title: with an order id,
\* asyncio.sleep(2), auto_freeshipping and the delivery; without one the
\* handler warns and returns
BargainStages(a) ==
    IF extract_order_id(a.f) # None
    THEN <<"sleep_2", "freeshipping">> \o AfterFreeshipping(a.freeshipping_ok)
    ELSE <<>>

\* XianyuLive.handle_message: get_api_reply when the API is enabled, the
\* system messages, the auto-delivery trigger, the bargain card, and then
\* keyword, AI and default reply in turn while no reply is at hand
HandleStages(a) ==
    LET kind == Classify(a.f)
        api == IF a.api_enabled THEN <<"api">> ELSE <<>>
        reply == a.api_enabled /\ a.api_reply
        selector ==
            IF reply THEN <<>>
            ELSE IF a.keyword_reply THEN <<"keyword">>
            ELSE IF a.ai_reply THEN <<"keyword", "ai">>
            ELSE <<"keyword", "ai", "default">>
    IN IF ~a.f.sync \/ kind = "self" \/ ~a.auto_reply THEN <<>>
       ELSE IF a.f.text \in IgnoredMessages THEN api
       ELSE IF kind = "trigger" THEN api \o <<"delivery">>
       ELSE IF kind = "bargain" THEN api \o BargainStages(a)
       ELSE api \o selector \o <<"send_notification">>

InitRoute ==
    /\ InitDelivery
    /\ InitEngineIdle
    /\ InitApiIdle("u1", "u1")
    /\ wire = [s \in Sessions |-> {}]
    /\ now = StartTime
    /\ frames_left = 0
    /\ args \in RouteInputs
    /\ result = <<>>

ApplyRoute ==
    /\ result = <<>>
    /\ result' = <<HandleStages(args)>>
    /\ UNCHANGED <<deliveryVars, args, apiVars, engineVars>>

NextRoute == ApplyRoute

SpecRoute == InitRoute /\ [][NextRoute]_vars

Invoked(stage) == \E i \in 1..Len(result[1]) : result[1][i] = stage

\* a message of a buyer that handle_message reaches with replies switched on
Routed == result # <<>> /\ args.f.sync /\ args.f.sender = "buyer"
             /\ args.auto_reply

\* C18: a trigger message sets off the delivery pipeline and no stage of
\* the reply selector; a plain chat message (no trigger, no bargain card,
\* no system message) sets off the reply selector and never the delivery
\* pipeline
TriggerAndChatRouting ==
    Routed =>
      /\ IsAutoDeliveryTrigger(args.f.text)
            => /\ Invoked("delivery")
               /\ \A st \in ReplyStages : ~Invoked(st)
      /\ (Classify(args.f) = "chat" /\ args.f.text \notin IgnoredMessages)
            => /\ ~Invoked("delivery")
               /\ \E st \in ReplyStages : Invoked(st)

\* ------------------------------------------------------------------------
\* XianyuLive.main, heartbeat_loop, token_refresh_loop and the registry's
\* status switch, for one account
\* ------------------------------------------------------------------------
deliveryRest == <<wire, frames_left, reconnected, pc, cur, ledgerVars,
                  storeVars, logVars>>
apiRest == <<user_id, call>>

\* the clock is followed step by step for LifeWindow seconds from the
\* start and from every time the token task finds the token due; the
\* steady cycles in between are taken in one step (QuietPeriod)
\* a failure that sends main into its 5 s wait, or that costs a connection,
\* is taken only while the run has room for the reconnect
CanDisturb ==
    /\ now + reconnect_delay <= horizon.until
    /\ ws.id < MaxConnections
    /\ horizon.events < MaxDisturbances

OneMoreEvent == [horizon EXCEPT !.events = @ + 1]

Asleep(t) == t.pc = "sleep"
Due(t) == Asleep(t) /\ t.wake <= now

\* task.cancel() on a task that exists and has not ended
Cancel(t) == IF Asleep(t) THEN Task("cancelled", NoTime) ELSE t

\* main gives up after a failure instead of waiting to reconnect
Backoff_stopped == Task("stopped", NoTime)

\* main's except branch: await asyncio.sleep(5), continue
Backoff == Task("sleep", now + reconnect_delay)

\* the socket is left as it is
CloseSocket_kept(w) == w

\* self.ws.close(), and the exit of "async with"
CloseSocket(w) == IF w.state = "open" THEN Socket(w.id, "closed") ELSE w

\* the wait after a failed scheduled refresh is the poll interval
RetryWake_poll == now + token_poll_interval

\* token_refresh_loop after a failed refresh: asyncio.sleep(token_retry_interval)
RetryWake == now + token_retry_interval

\* the refresh responses a session's own refresh meets: a new token that
\* differs from the one held, or a failure
LifeRefreshResponses ==
    { RefreshResponse("dict", <<SuccessMarker>>, {}, t) :
         t \in Tokens \ {current_token[Live]} }
    \cup { RefreshResponse("dict", <<TokenExpiredRet>>, {}, None) }

\* main, top of the loop: the status check, then the connection attempt.
\* A failed attempt lands in the except branch
MainConnect(ok) ==
    /\ main.pc = "check" \/ Due(main)
    /\ IF ~enabled[Account]
       THEN /\ main' = Task("stopped", NoTime)
            /\ UNCHANGED <<ws, heartbeat_task, token_refresh_task,
                           registered, server, horizon, observed>>
       ELSE IF ok
       THEN /\ ws.id < MaxConnections
            /\ ws' = Socket(ws.id + 1, "open")
            /\ main' = Task("init", NoTime)
            /\ registered' = None
            /\ server' = [silent |-> FALSE, ack_pending |-> FALSE]
            /\ observed' = [observed EXCEPT !.frames = <<>>,
                                            !.ended_at = NoTime]
            /\ UNCHANGED <<heartbeat_task, token_refresh_task, horizon>>
       ELSE /\ CanDisturb
            /\ horizon' = OneMoreEvent
            /\ heartbeat_task' = Cancel(heartbeat_task)
            /\ token_refresh_task' = Cancel(token_refresh_task)
            /\ main' = Backoff
            /\ UNCHANGED <<ws, registered, server, observed>>
    /\ UNCHANGED connection_restart_flag
    /\ UNCHANGED <<now, enabled, last_heartbeat_response, deliveryRest>>
    /\ UNCHANGED <<benchVars, apiVars, notifyVars>>

\* the frames sent on the latest connection, with one more
Sent(kind) ==
    IF Len(observed.frames) < MaxSentFrames
    THEN Append(observed.frames, kind)
    ELSE observed.frames

\* the register frame is sent whatever the token
CanRegister_always(token) == TRUE

\* init: "if not self.current_token: ... raise Exception", before any send
CanRegister(token) == token # None

\* init(websocket), first half: the token is refreshed when there is none
\* or it is due; without a token init raises before anything is sent;
\* otherwise the /reg frame goes out with the token, and init sleeps (1 s,
\* taken as a point where the other tasks may run).  A send on a socket
\* that is no longer open raises.  Whatever init raises lands in the
\* except branch of main
MainInit(r) ==
    /\ main.pc = "init"
    /\ IF TokenStale(Live)
       THEN refresh_token(Live, r)
       ELSE UNCHANGED <<cookieVars, tokenVars>>
    /\ IF ~CanRegister(current_token'[Live]) \/ ws.state # "open"
       THEN /\ current_token'[Live] = None => CanDisturb
            /\ horizon' = IF current_token'[Live] = None
                           THEN OneMoreEvent ELSE horizon
            /\ ws' = CloseSocket(ws)
            /\ heartbeat_task' = Cancel(heartbeat_task)
            /\ token_refresh_task' = Cancel(token_refresh_task)
            /\ main' = Backoff
            /\ observed' = [observed EXCEPT !.ended_at = now]
            /\ UNCHANGED registered
       ELSE /\ registered' = current_token'[Live]
            /\ observed' = [observed EXCEPT !.frames = Sent("reg")]
            /\ main' = Task("prime", NoTime)
            /\ UNCHANGED <<ws, horizon, heartbeat_task, token_refresh_task>>
    /\ UNCHANGED <<connection_restart_flag, server>>
    /\ UNCHANGED <<now, enabled, last_heartbeat_response, deliveryRest>>
    /\ UNCHANGED <<benchVars, apiRest, notifyVars>>

\* init(websocket), second half, and the creation of the two tasks: the
\* /r/SyncStatus/ackDiff frame goes out, then main starts heartbeat_loop
\* and token_refresh_loop.  Tasks left over from a connection that was
\* closed normally are not cancelled, only replaced: the heartbeat task
\* among them ends at its next send, on the dead socket
MainPrime ==
    /\ main.pc = "prime"
    /\ IF ws.state # "open"
       THEN /\ heartbeat_task' = Cancel(heartbeat_task)
            /\ token_refresh_task' = Cancel(token_refresh_task)
            /\ main' = Backoff
            /\ observed' = [observed EXCEPT !.ended_at = now]
       ELSE /\ heartbeat_task' = Task("sleep", now)
            /\ token_refresh_task' = Task("sleep", now)
            /\ main' = Task("recv", NoTime)
            /\ observed' = [observed EXCEPT !.active_since = now,
                                            !.frames = Sent("ackDiff")]
    /\ UNCHANGED <<ws, connection_restart_flag, registered, server, horizon>>
    /\ UNCHANGED <<now, enabled, last_heartbeat_response, deliveryRest>>
    /\ UNCHANGED <<benchVars, apiVars, notifyVars>>

\* the receive loop takes a frame: a heartbeat ack goes to
\* handle_heartbeat_response, a chat message to handle_message, which
\* handles it only for an enabled account and writes its ack first
ReceiveFrame(kind) ==
    /\ main.pc = "recv"
    /\ ws.state = "open"
    /\ IF kind = "ack"
       THEN /\ server.ack_pending
            /\ server' = [server EXCEPT !.ack_pending = FALSE]
            /\ last_heartbeat_response' =
                  [last_heartbeat_response EXCEPT ![Account] = now]
            /\ UNCHANGED observed
       ELSE /\ enabled[Account]
            /\ observed.chat_on # ws.id
            /\ observed' = [observed EXCEPT !.chat_on = ws.id,
                                            !.frames = Sent("ack")]
            /\ UNCHANGED <<server, last_heartbeat_response>>
    /\ UNCHANGED <<main, ws, heartbeat_task, token_refresh_task,
                   connection_restart_flag, registered>>
    /\ UNCHANGED <<now, enabled, deliveryRest>>
    /\ UNCHANGED <<benchVars, apiVars, notifyVars, horizon>>

\* "async for message in websocket" ends: normally after a close, so that
\* main goes back to the top of its loop with the tasks left alone, or with
\* ConnectionClosedError, which the except branch takes
MainConnectionEnded ==
    /\ main.pc = "recv"
    /\ ws.state \in {"closed", "lost"}
    /\ IF ws.state = "closed"
       THEN /\ main' = Task("check", NoTime)
            /\ UNCHANGED <<heartbeat_task, token_refresh_task>>
       ELSE /\ heartbeat_task' = Cancel(heartbeat_task)
            /\ token_refresh_task' = Cancel(token_refresh_task)
            /\ main' = Backoff
    /\ observed' = [observed EXCEPT !.ended_at = now]
    /\ UNCHANGED <<ws, connection_restart_flag, registered, server>>
    /\ UNCHANGED <<now, enabled, last_heartbeat_response, deliveryRest>>
    /\ UNCHANGED <<benchVars, apiVars, notifyVars, horizon>>

\* the server or the network drops the connection
ConnectionLost ==
    /\ ws.state = "open"
    /\ main.pc = "recv"
    /\ CanDisturb
    /\ horizon' = OneMoreEvent
    /\ ws' = Socket(ws.id, "lost")
    /\ server' = [server EXCEPT !.ack_pending = FALSE]
    /\ UNCHANGED <<main, heartbeat_task, token_refresh_task,
                   connection_restart_flag, registered, observed>>
    /\ UNCHANGED <<now, enabled, last_heartbeat_response, deliveryRest>>
    /\ UNCHANGED <<benchVars, apiVars, notifyVars>>

\* the server closes the connection with a normal close code: the
\* "async for" of the receive loop ends without an exception
ServerCloses ==
    /\ ws.state = "open"
    /\ main.pc = "recv"
    /\ CanDisturb
    /\ horizon' = OneMoreEvent
    /\ ws' = Socket(ws.id, "closed")
    /\ server' = [server EXCEPT !.ack_pending = FALSE]
    /\ UNCHANGED <<main, heartbeat_task, token_refresh_task,
                   connection_restart_flag, registered, observed>>
    /\ UNCHANGED <<now, enabled, last_heartbeat_response, deliveryRest>>
    /\ UNCHANGED <<benchVars, apiVars, notifyVars>>

\* get_item_info called by the delivery of a frame the session is handling:
\* the call refreshes the token when it is missing or due and, forced, on
\* every retry after a failed attempt.  refresh_token stores the new token
\* and its time and returns; the socket stays as it is
ForcedRefresh(r) ==
    /\ ws.state = "open"
    /\ main.pc = "recv"
    /\ enabled[Account]
    /\ horizon.events < MaxDisturbances
    /\ horizon' = OneMoreEvent
    /\ refresh_token(Live, r)
    /\ UNCHANGED <<main, ws, heartbeat_task, token_refresh_task,
                   connection_restart_flag, registered, server, observed>>
    /\ UNCHANGED <<now, enabled, last_heartbeat_response, deliveryRest>>
    /\ UNCHANGED <<benchVars, apiRest, notifyVars>>

\* the server stops answering heartbeats while the connection stays up
ServerFallsSilent ==
    /\ ws.state = "open"
    /\ main.pc = "recv"
    /\ ~server.silent
    /\ ~server.ack_pending
    /\ horizon.events < MaxDisturbances
    /\ horizon' = OneMoreEvent
    /\ server' = [server EXCEPT !.silent = TRUE]
    /\ UNCHANGED <<main, ws, heartbeat_task, token_refresh_task,
                   connection_restart_flag, registered, observed>>
    /\ UNCHANGED <<now, enabled, last_heartbeat_response, deliveryRest>>
    /\ UNCHANGED <<benchVars, apiVars, notifyVars>>

\* the connection heartbeat_loop(websocket) was started on: the tasks are
\* created after init, so a heartbeat task met while main is connecting or
\* initialising belongs to the connection before
BeatingOn == IF main.pc \in {"init", "prime"} THEN ws.id - 1 ELSE ws.id

\* heartbeat_loop, one iteration: the status check, send_heartbeat, the
\* sleep.  The send raises when the task's socket is no longer open, and
\* the loop logs and breaks
HeartbeatStep ==
    /\ Due(heartbeat_task)
    /\ IF ~enabled[Account]
       THEN /\ heartbeat_task' = Task("done", NoTime)
            /\ UNCHANGED <<server, observed>>
       ELSE IF ~(main.pc = "recv" /\ ws.state = "open")
       THEN /\ heartbeat_task' = Task("done", NoTime)
            /\ observed' = [observed EXCEPT !.hb_failed_on = BeatingOn]
            /\ UNCHANGED server
       ELSE /\ heartbeat_task' = Task("sleep", now + heartbeat_interval)
            /\ server' = [server EXCEPT !.ack_pending = ~server.silent]
            /\ observed' = [observed EXCEPT !.frames = Sent("heartbeat")]
    /\ UNCHANGED <<main, ws, token_refresh_task, connection_restart_flag,
                   registered>>
    /\ UNCHANGED <<now, enabled, last_heartbeat_response, deliveryRest>>
    /\ UNCHANGED <<benchVars, apiVars, notifyVars, horizon>>

\* token_refresh_loop, one iteration: the status check; when the token is
\* due, refresh_token, and on success the restart flag, ws.close() and the
\* break, on failure the report and the long sleep; otherwise the 60 s sleep
TokenRefreshStep(r) ==
    /\ Due(token_refresh_task)
    /\ IF ~enabled[Account]
       THEN /\ token_refresh_task' = Task("done", NoTime)
            /\ UNCHANGED <<ws, connection_restart_flag, observed,
                           cookieVars, tokenVars>>
       ELSE IF now - last_token_refresh_time[Live] >= token_refresh_interval
       THEN /\ refresh_token(Live, r)
            /\ IF RefreshSucceeded(r)
               THEN /\ ws.id < MaxConnections
                    /\ connection_restart_flag' = TRUE
                    /\ ws' = CloseSocket(ws)
                    /\ token_refresh_task' = Task("done", NoTime)
                    /\ observed' = [observed EXCEPT !.restart_from = ws.id,
                                                    !.failures = 0]
               ELSE /\ observed.failures < MaxFailures
                    /\ token_refresh_task' = Task("sleep", RetryWake)
                    /\ observed' =
                          [observed EXCEPT
                              !.failures = IF observed.failed_on = ws.id
                                           THEN @ + 1 ELSE 1,
                              !.failed_on = ws.id]
                    /\ UNCHANGED <<ws, connection_restart_flag>>
       ELSE /\ token_refresh_task' =
                  Task("sleep", now + token_poll_interval)
            /\ UNCHANGED <<ws, connection_restart_flag, observed,
                           cookieVars, tokenVars>>
    /\ UNCHANGED <<main, heartbeat_task, registered, server>>
    /\ UNCHANGED <<now, enabled, last_heartbeat_response, deliveryRest>>
    /\ UNCHANGED <<benchVars, apiRest, notifyVars, horizon>>

\* update_cookie_status of the management API, through the registry: the
\* status the session's loops read.  Enabling an account whose session has
\* stopped starts a new session
SetStatus(b) ==
    /\ enabled[Account] # b
    /\ horizon.events < MaxDisturbances
    /\ horizon' = OneMoreEvent
    /\ enabled' = [enabled EXCEPT ![Account] = b]
    /\ observed' = [observed EXCEPT
                       !.disabled_at = IF b THEN NoTime ELSE now]
    /\ IF b /\ main.pc = "stopped"
       THEN /\ main' = Task("check", NoTime)
            /\ heartbeat_task' = NoTask
            /\ token_refresh_task' = NoTask
            /\ connection_restart_flag' = FALSE
            /\ current_token' = [current_token EXCEPT ![Live] = None]
            /\ last_token_refresh_time' =
                  [last_token_refresh_time EXCEPT ![Live] = 0]
       ELSE UNCHANGED <<main, heartbeat_task, token_refresh_task,
                        connection_restart_flag, tokenVars>>
    /\ UNCHANGED <<ws, registered, server>>
    /\ UNCHANGED <<now, last_heartbeat_response, deliveryRest>>
    /\ UNCHANGED <<benchVars, cookieVars, apiRest, notifyVars>>

\* some step of the session is ready to run without time passing
Urgent ==
    \/ main.pc \in {"check", "init", "prime"}
    \/ Due(main) \/ Due(heartbeat_task) \/ Due(token_refresh_task)
    \/ main.pc = "recv" /\ ws.state # "open"
    \/ main.pc = "recv" /\ server.ack_pending

Sleepers ==
    {t \in {main, heartbeat_task, token_refresh_task} : Asleep(t)}

\* time passes until the next sleeper wakes, a heartbeat interval when
\* nothing is asleep
LifeTick ==
    /\ ~Urgent
    /\ LET next ==
             IF Sleepers = {} THEN now + heartbeat_interval
             ELSE CHOOSE w \in {t.wake : t \in Sleepers} :
                     \A t \in Sleepers : w <= t.wake
       IN  /\ next <= horizon.until
           /\ now' = next
    /\ UNCHANGED <<enabled, last_heartbeat_response, deliveryRest>>
    /\ UNCHANGED <<benchVars, apiVars, notifyVars>>
    /\ UNCHANGED <<main, ws, heartbeat_task, token_refresh_task,
                   connection_restart_flag, registered, server, observed,
                   horizon>>

\* the first time at or after t at which a loop asleep until wake, and
\* sleeping period seconds each round, wakes
FirstWake(wake, period, t) ==
    IF wake >= t THEN wake
    ELSE wake + period * ((t - wake + period - 1) \div period)

\* the steady cycles of an active session: heartbeats sent and answered
\* every heartbeat_interval, the token task asleep or polling every 60 s,
\* up to the iteration of the token task that finds the token due
QuietPeriod ==
    /\ ~Urgent
    /\ main.pc = "recv" /\ ws.state = "open"
    /\ enabled[Account]
    /\ ~server.silent
    /\ Asleep(heartbeat_task) /\ Asleep(token_refresh_task)
    /\ LET due == last_token_refresh_time[Live] + token_refresh_interval
           poll == FirstWake(token_refresh_task.wake, token_poll_interval,
                             due)
           beat == FirstWake(heartbeat_task.wake, heartbeat_interval, poll)
       IN  /\ poll > now
           /\ poll <= MaxLifeTime
           /\ now' = poll
           /\ horizon' = [horizon EXCEPT !.until = poll + LifeWindow]
           /\ token_refresh_task' = Task("sleep", poll)
           /\ heartbeat_task' = Task("sleep", beat)
           /\ last_heartbeat_response' =
                 [last_heartbeat_response EXCEPT
                     ![Account] = beat - heartbeat_interval]
    /\ UNCHANGED <<main, ws, connection_restart_flag, registered, server,
                   observed>>
    /\ UNCHANGED <<enabled, deliveryRest>>
    /\ UNCHANGED <<benchVars, apiVars, notifyVars>>

InitSession ==
    /\ InitDelivery
    /\ InitNotifyIdle
    /\ main = Task("check", NoTime)
    /\ ws = Socket(0, "none")
    /\ heartbeat_task = NoTask
    /\ token_refresh_task = NoTask
    /\ connection_restart_flag = FALSE
    /\ registered = None
    /\ server = [silent |-> FALSE, ack_pending |-> FALSE]
    /\ observed = Observed
    /\ horizon = [until |-> token_refresh_interval + LifeWindow,
                  events |-> 0]
    /\ InitBenchIdle
    /\ InitApiIdle("u1", "u1")
    /\ wire = [s \in Sessions |-> {}]
    /\ frames_left = 0
    /\ now = token_refresh_interval

SessionStep ==
    \/ \E ok \in BOOLEAN : MainConnect(ok)
    \/ \E r \in LifeRefreshResponses : MainInit(r)
    \/ MainPrime
    \/ MainConnectionEnded
    \/ ReceiveFrame("ack")
    \/ HeartbeatStep
    \/ \E r \in LifeRefreshResponses : TokenRefreshStep(r)
    \/ LifeTick
    \/ QuietPeriod

NextSession ==
    \/ SessionStep
    \/ ReceiveFrame("chat")
    \/ ConnectionLost
    \/ ServerCloses
    \/ \E r \in LifeRefreshResponses : ForcedRefresh(r)
    \/ ServerFallsSilent
    \/ \E b \in BOOLEAN : SetStatus(b)

SpecSession == InitSession /\ [][NextSession]_vars

\* the event loop runs every task that is ready, and time passes; the
\* failures a run meets are finitely many, so a connection attempt and a
\* registration succeed in the end
SpecSessionFair == SpecSession /\ WF_vars(SessionStep)

Connections == 1..MaxConnections

\* the session is Active on its latest connection: registered, receiving,
\* heartbeat and token task running
ActiveOn(c) ==
    /\ ws = Socket(c, "open")
    /\ main.pc = "recv"
    /\ Asleep(heartbeat_task)
    /\ Asleep(token_refresh_task)

\* the scheduled refresh on connection c has succeeded and set the restart
\* flag, and no connection was opened since
RestartingFrom(c) ==
    /\ observed.restart_from = c
    /\ ws.id = c
    /\ connection_restart_flag

\* C14: after a successful scheduled refresh has set the restart flag and
\* closed the socket, the session (unless the account is disabled
\* meanwhile) comes to be Active on a later connection, registered with
\* the new token, heartbeat and token task running again
RefreshRestartsConnection ==
    \A c \in Connections :
       RestartingFrom(c) ~>
          \/ ~enabled[Account]
          \/ \E d \in Connections :
                /\ d > c
                /\ ActiveOn(d)
                /\ registered = current_token[Live]
                /\ registered # None

\* a chat message is handled on the connection opened after the restart
RefreshRestartsConnectionWitness ==
    \E c \in Connections :
       /\ observed.restart_from = c
       /\ connection_restart_flag
       /\ ActiveOn(c + 1)
       /\ registered = current_token[Live]
       /\ registered # None
       /\ observed.chat_on = c + 1
       /\ enabled[Account]

\* the session of the account exists: its main task has not returned
SessionLive == main.pc # "stopped"

DisabledFor == now - observed.disabled_at

\* C16: once the account has been disabled for more than a heartbeat
\* interval, the receive loop, the heartbeat loop and the token loop have
\* all exited
DisabledSessionStops ==
    (~enabled[Account] /\ observed.disabled_at # NoTime
       /\ DisabledFor > heartbeat_interval)
    => /\ main.pc = "stopped"
       /\ ~Asleep(heartbeat_task)
       /\ ~Asleep(token_refresh_task)

\* when the session last had a sign of life from the server on its
\* connection: the latest heartbeat ack, or the registration
LastAck ==
    IF last_heartbeat_response[Account] > observed.active_since
    THEN last_heartbeat_response[Account]
    ELSE observed.active_since

\* C17: a session does not stay Active on a connection whose heartbeats go
\* unanswered: with the last ack more than 2 * heartbeat_interval old, the
\* heartbeat iteration that follows has taken the session out of Active
HeartbeatTimeoutReconnects ==
    (enabled[Account] /\ main.pc = "recv" /\ ws.state = "open")
    => now - LastAck <= 3 * heartbeat_interval

\* the heartbeat task of connection c has failed to send and has ended,
\* and no connection was opened since
HeartbeatFailedOn(c) ==
    /\ observed.hb_failed_on = c
    /\ ws.id = c
    /\ heartbeat_task.pc = "done"

\* C19: after a heartbeat could not be sent on a connection, the session
\* (unless the account is disabled meanwhile) opens a later connection and
\* registers on it
HeartbeatFailureReconnects ==
    \A c \in Connections :
       HeartbeatFailedOn(c) ~>
          \/ ~enabled[Account]
          \/ /\ ws.id > c
             /\ ws.state = "open"
             /\ main.pc = "recv"
             /\ registered # None

\* the heartbeat failed on a connection that was lost while the session
\* was Active on it, and the session is Active again on the next
HeartbeatFailureReconnectsWitness ==
    \E c \in Connections :
       /\ observed.hb_failed_on = c
       /\ observed.restart_from # c
       /\ ActiveOn(c + 1)
       /\ registered # None
       /\ enabled[Account]

\* a step of the token task that is a failed scheduled refresh
FailedScheduledRefresh ==
    /\ Due(token_refresh_task)
    /\ enabled[Account]
    /\ observed'.failures > 0
    /\ observed'.failures # observed.failures \/ observed'.failed_on # observed.failed_on

\* C20: a failed scheduled refresh leaves the socket, the restart flag and
\* the main task as they are and puts the token task to sleep for
\* token_retry_interval, after which it tries again
FailedRefreshKeepsConnection ==
    [][FailedScheduledRefresh =>
          /\ ws' = ws
          /\ connection_restart_flag' = connection_restart_flag
          /\ main' = main
          /\ heartbeat_task' = heartbeat_task
          /\ token_refresh_task' = Task("sleep", now + token_retry_interval)
      ]_vars

\* the second failure in a row on one connection, the session still
\* Active on it
FailedRefreshKeepsConnectionWitness ==
    /\ observed.failures >= 2
    /\ ActiveOn(observed.failed_on)
    /\ ~connection_restart_flag
    /\ token_refresh_task.wake = now + token_retry_interval
    /\ enabled[Account]

\* ------------------------------------------------------------------------
\* Properties of the stages of the delivery pipeline
\* ------------------------------------------------------------------------
\* session s takes a step of _auto_delivery (rule matching, confirmation
\* or content) on a trigger that carries no order id
StepWithoutOrder(s) ==
    /\ pc[s] \in {"match", "confirm", "content"}
    /\ cur[s].order = None
    /\ pc'[s] # pc[s]

\* C26: a trigger without an order id goes through the pipeline without a
\* ship confirmation, without content taken or produced, without a counter
\* or ledger change and without a delivery message, a matching rule or not
NoOrderNoDelivery ==
    [][\A s \in Sessions :
          StepWithoutOrder(s) =>
             /\ confirm_log' = confirm_log
             /\ confirmed_orders' = confirmed_orders
             /\ last_delivery_time' = last_delivery_time
             /\ card_data' = card_data
             /\ consumed' = consumed
             /\ delivery_times' = delivery_times
             /\ sent' = sent
             /\ pc'[s] # "send"
      ]_vars

\* a trigger without an order id whose item matched a rule has ended in
\* the failure report, nothing sent
NoOrderNoDeliveryWitness ==
    /\ \E n \in notify_log :
          n.order = None /\ n.rule # NoRule /\ n.status = "failed"
    /\ \A m \in sent : m.order # None
    /\ \A s \in Sessions : pc[s] = "idle"

\* session s ends the rule matching of _auto_delivery without a rule
NoRuleStep(s) == pc[s] = "match" /\ pc'[s] = "idle"

ConfirmStep(s) == pc[s] = "confirm" /\ pc'[s] # "confirm"

\* C28: whether auto_confirm succeeded or failed, the content step follows
\* with the same order and rule, and the failure leaves the stores and the
\* delivery ledger as they were
FailedConfirmNotFatal ==
    [][\A s \in Sessions :
          ConfirmStep(s) =>
             /\ pc'[s] = "content"
             /\ cur'[s] = cur[s]
             /\ card_data' = card_data
             /\ delivery_times' = delivery_times
             /\ last_delivery_time' = last_delivery_time
      ]_vars

\* an order whose confirmation failed, and was never recorded, got its
\* delivery message and is marked delivered
FailedConfirmNotFatalWitness ==
    \E m \in sent : \E c \in confirm_log :
       /\ c.s = m.s /\ c.order = m.order
       /\ ~c.ok
       /\ c.at >= m.checked
       /\ confirmed_orders[m.s][m.order] = NoTime
       /\ last_delivery_time[m.s][m.order] >= m.checked

\* C30: an order is in the delivery ledger, and a rule's counter above
\* zero, only when a delivery message for it has been written to the
\* socket
MarkedOnlyAfterSend ==
    /\ \A s \in Sessions : \A o \in Orders :
          last_delivery_time[s][o] > 0
             => \E m \in sent : m.s = s /\ m.order = o
    /\ \A r \in RuleIds :
          delivery_times[r] > 0 => \E m \in sent : m.rule = r

\* C29: auto_confirm is called only for an account whose auto-confirm
\* setting is on, and only with an order id
ConfirmOnlyWhenEnabled ==
    \A c \in confirm_log :
       /\ auto_confirm_enabled[c.s]
       /\ c.order # None

\* a chat message of another user: a sync package whose sender is not the
\* account itself and whose text is none of the system texts
InboundChat == result # <<>> /\ args.f.sync /\ args.f.sender = "buyer"
                  /\ args.f.text \notin IgnoredMessages

\* C25: every chat message received from another user sets off
\* send_notification, whichever stages handle it and whether or not a reply
\* is produced
InboundAlwaysNotified == InboundChat => Invoked("send_notification")

\* ------------------------------------------------------------------------
\* XianyuLive.main, body of the receive loop: what one frame sets off
\* ------------------------------------------------------------------------
\* frames with and without a top-level code of 200, with and without a
\* syncPushPackage body
ReceiveFrames ==
    { Frame(code, sync, sender, text, <<>>, o, None, None, "i1") :
         code \in {0, 200}, sync \in BOOLEAN, sender \in {"me", "buyer"},
         text \in {TriggerPaidBracket, AskShippingText, <<>>},
         o \in {None, "o1"} }

\* a frame, and whether the account is enabled
ReceiveInputs == [f : ReceiveFrames, enabled : BOOLEAN]

\* the frame is first offered to handle_heartbeat_response; a frame it does
\* not take goes to handle_message, which returns at once for a disabled
\* account, writes the ack, and decodes and classifies a sync package
ReceiveLoop(a) ==
    IF IsHeartbeatResponse(a.f) THEN <<"heartbeat_response">>
    ELSE IF ~a.enabled THEN <<>>
    ELSE IF ~a.f.sync THEN <<"ack">>
    ELSE <<"ack", "decode", Classify(a.f)>>

InitReceive ==
    /\ InitDelivery
    /\ InitEngineIdle
    /\ InitApiIdle("u1", "u1")
    /\ wire = [s \in Sessions |-> {}]
    /\ now = StartTime
    /\ frames_left = 0
    /\ args \in ReceiveInputs
    /\ result = <<>>

ApplyReceive ==
    /\ result = <<>>
    /\ result' = <<ReceiveLoop(args)>>
    /\ UNCHANGED <<deliveryVars, args, apiVars, engineVars>>

NextReceive == ApplyReceive

SpecReceive == InitReceive /\ [][NextReceive]_vars

\* C23: a frame is taken as a heartbeat ack exactly when it has code 200
\* and no body, and a frame with a syncPushPackage body is acked and goes
\* on to decoding and classification whatever its code
HeartbeatAckOnlyWithoutBody ==
    (result # <<>> /\ args.enabled) =>
       /\ Invoked("heartbeat_response")
             <=> (args.f.code = 200 /\ ~args.f.sync)
       /\ args.f.sync => Invoked("ack") /\ Invoked("decode")

\* ------------------------------------------------------------------------
\* The receive loop and the delivery pipeline of a session that is sent a
\* frame it cannot decode
\* ------------------------------------------------------------------------
FramesWire ==
    [s \in Sessions |->
        IF s = "s1"
        THEN { GarbledFrame, HeartbeatAck, TriggerFrame("o1", "i2"),
               BargainFrame("o2", "i2") }
        ELSE {}]

InitFrames ==
    /\ InitDelivery
    /\ InitEngineIdle
    /\ InitApiIdle("u1", "u1")
    /\ InitBenchIdle
    /\ wire = FramesWire
    /\ now = StartTime
    /\ frames_left = MaxFrames

SpecFrames == InitFrames /\ [][Next]_vars

\* session s drops a frame it cannot decode
GarbledStep(s) ==
    pc[s] = "route" /\ ~Decodes(cur[s].f) /\ pc'[s] # pc[s]

\* the send of session s raises: the handling of the trigger ends in the
\* except branch
FailedSendStep(s) ==
    pc[s] = "send" /\ pc'[s] = "idle" /\ sent' = sent

\* C24: a frame that cannot be decoded, or whose handling raises, leaves
\* no trace: nothing sent, stores and ledgers as before the frame, and the
\* receive loop ready for the next frame
FailedFrameLeavesNoTrace ==
    [][\A s \in Sessions :
          /\ GarbledStep(s) =>
                /\ pc'[s] = "idle"
                /\ UNCHANGED <<ledgerVars, storeVars, logVars>>
          /\ FailedSendStep(s) =>
                /\ pc'[s] = "idle"
                /\ cur[s].order # None =>
                      last_delivery_time'[s][cur[s].order] < cur[s].checked
      ]_vars

\* ---------------------------------------------------------------------
\* Properties of reconnection and registration
\* ---------------------------------------------------------------------

\* main is about to open a connection after an earlier one has ended
ReconnectAttempt ==
    /\ main.pc = "check"
    /\ main'.pc \in {"init", "sleep"}
    /\ observed.ended_at # NoTime

\* C21: between the end of one connection of a session (by socket error,
\* server close, or the graceful close after a token refresh) and the
\* session's next connection attempt at least reconnect_delay (5 s) elapse
ReconnectBacksOff ==
    [][ReconnectAttempt => now >= observed.ended_at + reconnect_delay]_vars
\* the frames sent so far on the latest connection start with the register
\* frame, sent with a token, and go on with the sync-priming frame
FramesInOrder ==
    /\ observed.frames # <<>> =>
          /\ observed.frames[1] = "reg"
          /\ registered # None
    /\ Len(observed.frames) >= 2 => observed.frames[2] = "ackDiff"

\* init ends without a token
InitWithoutToken ==
    /\ main.pc = "init"
    /\ main'.pc # "init"
    /\ current_token'[Live] = None

\* C22: on every new connection the first frame sent is the /reg frame
\* with a non-empty token, the /r/SyncStatus/ackDiff frame is the next, and
\* no heartbeat, ack or chat frame is sent before both; when no token can
\* be obtained no register frame is sent and main goes to its reconnect
\* path (the 5 s sleep of the except branch)
RegistersFirst ==
    /\ []FramesInOrder
    /\ [][InitWithoutToken =>
             /\ observed'.frames = <<>>
             /\ registered' = None
             /\ main' = Task("sleep", now + reconnect_delay)
             /\ ws'.state # "open"
         ]_vars

\* a reconnection has registered, primed and gone on to send a heartbeat
RegistersFirstWitness ==
    /\ ws.id >= 2
    /\ registered # None
    /\ observed.frames = <<"reg", "ackDiff", "heartbeat">>

\* ------------------------------------------------------------------------
\* XianyuLive._get_api_card_content: the content of an api-type card
\* ------------------------------------------------------------------------
MaxResponses == 4         \* responses of the card API that are looked at

max_retries == 4

\* what one request to the card API ends in: a status code, or an exception
\* of the HTTP client (connection error, timeout)
CardResponse(raised, status) == [raised |-> raised, status |-> status]
ClientError == CardResponse(TRUE, 0)
CardResponses ==
    { CardResponse(FALSE, c) : c \in {200, 404, 408, 500, 503} }
       \cup {ClientError}

\* the call as it starts: retry_count = 0, nothing waited for
CardCall == [retry_count |-> 0, waits |-> <<>>, state |-> "calling",
             content |-> <<>>]

\* "except (aiohttp.ClientTimeout, aiohttp.ClientError)": ClientTimeout is
\* the settings class of the client, not an exception, so matching any
\* exception against this clause raises TypeError; the "except Exception"
\* below it belongs to the same try and does not see it
ClientErrorOutcome(c) == [c EXCEPT !.state = "raised"]

\* one invocation of _get_api_card_content(rule, retry_count) with the
\* response its request gets
GetApiCardContent(c, response) ==
    IF c.retry_count >= max_retries THEN [c EXCEPT !.state = "returned"]
    ELSE IF response.raised THEN ClientErrorOutcome(c)
    ELSE IF response.status = 200
    THEN [c EXCEPT !.state = "returned", !.content = <<"A">>]
    ELSE IF (response.status >= 500 \/ response.status = 408)
            /\ c.retry_count < max_retries - 1
    THEN [c EXCEPT !.retry_count = @ + 1,
                   !.waits = Append(@, (c.retry_count + 1) * 2)]
    ELSE [c EXCEPT !.state = "returned"]

InitCard ==
    /\ InitDelivery
    /\ InitEngineIdle
    /\ InitApiIdle("u1", "u1")
    /\ wire = [s \in Sessions |-> {}]
    /\ now = StartTime
    /\ frames_left = 0
    /\ args \in [1..MaxResponses -> CardResponses]
    /\ result = CardCall

\* the call, or the retry it has come to, makes its request
CardAttempt ==
    /\ result.state = "calling"
    /\ result.retry_count < MaxResponses
    /\ result' = GetApiCardContent(result, args[result.retry_count + 1])
    /\ UNCHANGED <<deliveryVars, args, apiVars, engineVars>>

NextCard == CardAttempt

SpecCard == InitCard /\ [][NextCard]_vars

\* the responses the call has seen so far
Seen == SubSeq(args, 1, Len(result.waits))

Retryable(response) ==
    response.raised \/ response.status = 408 \/ response.status >= 500

\* C31: an api-type card is retried on 5xx, 408 and network errors, at most
\* 4 times, with 2*n seconds before the n-th retry; the call ends by
\* returning the extracted content or no content, and any other status
\* ends it with no content at once
ApiCardRetries ==
    /\ result.state \in {"calling", "returned"}
    /\ Len(result.waits) <= 4
    /\ \A n \in 1..Len(result.waits) :
          /\ result.waits[n] = 2 * n
          /\ Retryable(args[n])
    /\ result.state = "returned" =>
          LET last == args[Len(result.waits) + 1] IN
          /\ (result.content # <<>>) <=> (last.status = 200)
          /\ (Retryable(last) /\ result.content = <<>>) =>
                Len(result.waits) >= max_retries - 1

\* ------------------------------------------------------------------------
\* Properties of the reply templates
\* ------------------------------------------------------------------------

\* the template the selector takes its reply from: that of the external
\* API, else of the matching keyword rule, else (no AI reply) the default
TemplatesOf(a) ==
    IF IsReply(a.api) THEN {a.api}
    ELSE IF ItemHits(a) # {} THEN {k.reply : k \in Longest(ItemHits(a))}
    ELSE IF GlobalHits(a) # {} THEN {k.reply : k \in Longest(GlobalHits(a))}
    ELSE IF a.ai = None /\ DefaultUsable(a) THEN {a.settings.reply_content}
    ELSE {}

\* C32: the reply of the selector is its template with {send_user_id},
\* {send_user_name} and {send_message} filled in, and the template as it
\* stands when the interpolation fails, for the reply of the external API,
\* the keyword reply and the default reply alike
TemplateNeverLost ==
    (result # <<>> /\ TemplatesOf(args) # {}) =>
        \E t \in TemplatesOf(args) :
            result[1] = IF FormatRaises(t) THEN t
                        ELSE FormatFields(t, args.name, args.uid, args.text)

\* ------------------------------------------------------------------------
\* The product rows of the store and the session operations that write them
\* ------------------------------------------------------------------------

\* item ids as they come from a frame or from the item list: two products
\* and a fallback id f"auto_{user_id}_{int(time.time())}"
SyntheticId == <<"auto_", "u1", "_", "1">>
ItemIds == { <<"7", "1">>, <<"7", "2">>, SyntheticId }

\* no id is taken for a fallback id
IsSynthetic_never(item_id) == FALSE

\* item_id.startswith('auto_')
IsSynthetic(item_id) == item_id # <<>> /\ Head(item_id) = "auto_"

Titles == { <<>>, <<"t">> }

MaxDetailLen == 3         \* tokens of a stored detail that is still extended

\* json.dumps of the basic fields of a listed item; the text of the
\* external detail API; the content of the product-info API
JsonDetail == <<"json">>
FetchedDetail == <<"fetched">>
ApiContent == <<"content">>

ItemRow(title, detail) == [present |-> TRUE, title |-> title, detail |-> detail]
NoItemRow == [present |-> FALSE, title |-> <<>>, detail |-> <<>>]

\* db_manager.save_item_info(cookie_id, item_id, item_data): the row gets
\* the detail; no title is passed
save_item_info(store, item_id, item_data) ==
    [store EXCEPT ![item_id] = ItemRow(@.title, item_data)]

\* db_manager.update_item_detail: the detail of an existing row
update_item_detail(store, item_id, item_detail) ==
    IF store[item_id].present
    THEN [store EXCEPT ![item_id].detail = item_detail]
    ELSE store

\* db_manager.batch_save_item_basic_info: every row of the batch is written
batch_save_item_basic_info(store, batch) ==
    [i \in ItemIds |->
        IF i \in DOMAIN batch THEN ItemRow(batch[i].item_title,
                                           batch[i].item_detail)
        ELSE store[i]]

\* XianyuLive.save_item_info_to_db
save_item_info_to_db(store, item_id, item_detail, item_title) ==
    IF IsSynthetic(item_id) THEN store
    ELSE IF item_title = <<>> /\ item_detail = <<>> THEN store
    ELSE IF item_title = <<>> \/ item_detail = <<>> THEN store
    ELSE save_item_info(store, item_id, item_detail)

\* XianyuLive.save_item_detail_only
save_item_detail_only(store, item_id, item_detail) ==
    update_item_detail(store, item_id, item_detail)

RECURSIVE SaveDetails(_, _)
SaveDetails(store, ids) ==
    IF ids = {} THEN store
    ELSE LET i == CHOOSE x \in ids : TRUE
         IN SaveDetails(save_item_detail_only(store, i, FetchedDetail),
                        ids \ {i})

\* XianyuLive.save_items_list_to_db with _fetch_missing_item_details:
\* items_list gives the title of each listed id, fetchable the ids whose
\* detail the external API returns
save_items_list_to_db(store, items_list, fetchable) ==
    LET kept == {i \in DOMAIN items_list : i # <<>> /\ ~IsSynthetic(i)}
        batch == [i \in kept |->
                     [item_title |-> items_list[i],
                      item_detail |-> JsonDetail]]
        need == {i \in kept :
                    ~(store[i].present /\ store[i].detail # <<>>)}
    IN IF kept = {} THEN store
       ELSE SaveDetails(batch_save_item_basic_info(store, batch),
                        need \cap fetchable)

\* XianyuLive._auto_delivery, as far as it writes the product row of the
\* frame's item: the search text is the content of the product-info API,
\* else title and detail of the stored row (fetching and saving a missing
\* detail), else the frame's title or the id; with a matching rule and a
\* stored title the search text is saved as the item's detail
auto_delivery_item(store, item_id, api_ok, fetched, matched) ==
    LET row == store[item_id]
        fetch == ~api_ok /\ row.present /\ row.detail = <<>> /\ fetched
        store1 == IF fetch
                  THEN save_item_detail_only(store, item_id, FetchedDetail)
                  ELSE store
        row1 == store1[item_id]
        search_text == IF api_ok THEN ApiContent
                       ELSE IF row1.present /\ row1.title \o row1.detail # <<>>
                       THEN row1.title \o row1.detail
                       ELSE item_id
    IN IF matched /\ row1.present /\ row1.title # <<>>
       THEN save_item_info_to_db(store1, item_id, search_text, row1.title)
       ELSE store1

InitItems ==
    /\ InitDelivery
    /\ InitEngineIdle
    /\ InitApiIdle("u1", "u1")
    /\ wire = [s \in Sessions |-> {}]
    /\ now = StartTime
    /\ frames_left = 0
    /\ args = <<>>
    /\ result = [i \in ItemIds |-> NoItemRow]

\* get_item_list_info has fetched a page of the item list and saves it
SaveItemsList ==
    /\ \E ids \in SUBSET ItemIds :
          \E items_list \in [ids -> Titles], fetchable \in {{}, ItemIds} :
             /\ ids # {}
             /\ args' = <<"list", ids>>
             /\ result' = save_items_list_to_db(result, items_list,
                                                fetchable)
    /\ UNCHANGED <<deliveryVars, apiVars, engineVars>>

\* a delivery trigger for an item goes through _auto_delivery
AutoDeliveryItem ==
    /\ \E item_id \in ItemIds, api_ok \in BOOLEAN, fetched \in BOOLEAN,
          matched \in BOOLEAN :
          /\ Len(result[item_id].detail) < MaxDetailLen
          /\ args' = <<"delivery", {item_id}>>
          /\ result' = auto_delivery_item(result, item_id, api_ok, fetched,
                                          matched)
    /\ UNCHANGED <<deliveryVars, apiVars, engineVars>>

NextItems == SaveItemsList \/ AutoDeliveryItem

SpecItems == InitItems /\ [][NextItems]_vars

\* C33: no stored product row has an empty title or an empty detail
ProductRowsComplete ==
    \A i \in ItemIds :
        result[i].present => result[i].title # <<>> /\ result[i].detail # <<>>

\* C34: no product row is stored under a fallback id
SyntheticNeverPersisted ==
    \A i \in ItemIds : Head(i) = "auto_" => ~result[i].present

\* the latest operation was handed the fallback id, and the two products
\* are stored
SyntheticNeverPersistedWitness ==
    /\ args # <<>>
    /\ SyntheticId \in args[2]
    /\ \A i \in ItemIds \ {SyntheticId} : result[i].present

\* ------------------------------------------------------------------------
\* Properties of the card messages
\* ------------------------------------------------------------------------

\* a message of a buyer that handle_message has been through
FromBuyer == result # <<>> /\ args.f.sync /\ args.f.sender = "buyer"

\* stage a is invoked, and stage b after it
InvokedBefore(a, b) ==
    \E i, j \in 1..Len(result[1]) :
        i < j /\ result[1][i] = a /\ result[1][j] = b

\* a bargain card runs the pre-delay, auto_freeshipping and then the
\* delivery pipeline
FreeshippingThenDelivery ==
    /\ InvokedBefore("sleep_2", "freeshipping")
    /\ InvokedBefore("freeshipping", "delivery")
    /\ \A st \in ReplyStages \ {"api"} : ~Invoked(st)

\* a card with another title goes to the reply selector
OtherCardToSelector ==
    (args.f.text = CardMessageText /\ args.f.title # BargainTitle) =>
        /\ \E st \in ReplyStages : Invoked(st)
        /\ ~Invoked("delivery") /\ ~Invoked("freeshipping")

\* C35 as stated: every card with the bargain title runs auto_freeshipping
\* after the 2 s pre-delay and then the delivery, whatever auto_freeshipping
\* returned; a card with another title goes to the reply selector
BargainCardDelivers ==
    FromBuyer =>
      /\ Classify(args.f) = "bargain" => FreeshippingThenDelivery
      /\ OtherCardToSelector

\* C35: with replies switched on, a card with the bargain title from which
\* an order id is extracted runs auto_freeshipping after the 2 s pre-delay
\* and then the delivery, whatever auto_freeshipping returned; a bargain
\* card without an order id runs neither, nor the reply selector; a card
\* with another title goes to the reply selector; with replies switched
\* off no card runs anything
BargainCardWithOrderDelivers ==
    /\ (FromBuyer /\ ~args.auto_reply) => result[1] = <<>>
    /\ Routed =>
      /\ (Classify(args.f) = "bargain" /\ extract_order_id(args.f) # None)
            => FreeshippingThenDelivery
      /\ (Classify(args.f) = "bargain" /\ extract_order_id(args.f) = None)
            => /\ ~Invoked("freeshipping") /\ ~Invoked("delivery")
               /\ \A st \in ReplyStages \ {"api"} : ~Invoked(st)
      /\ OtherCardToSelector

\* a bargain card with an order id whose auto_freeshipping failed and whose
\* delivery followed
BargainCardWithOrderDeliversWitness ==
    /\ Routed
    /\ Classify(args.f) = "bargain"
    /\ extract_order_id(args.f) = "o1"
    /\ ~args.freeshipping_ok
    /\ InvokedBefore("freeshipping", "delivery")

\* ------------------------------------------------------------------------
\* The receive loop of one connection and the frames written to its
\* socket: the order of replies within a chat
\* ------------------------------------------------------------------------
MaxInbound == 3           \* inbound frames of the chat
MaxOut == 4               \* frames written to the socket that are kept

\* what an inbound frame of the chat leads to: a reply of the selector, a
\* delivery message, or nothing to send
InboundKinds == {"reply", "delivery", "silent"}

\* the loop, the handlers in flight and the socket at the start
ChatLoop == [next |-> 1, inflight |-> {}, out |-> <<>>, open |-> TRUE]

\* the frame is handed to a task of its own: the loop reads on at once
CanReadNext_spawned(st) == TRUE

\* "await self.handle_message(message_data, websocket)" inside the "async
\* for": the next frame is read when the handler has returned
CanReadNext(st) == st.inflight = {}

\* a frame written to the socket, of 0 for a heartbeat
Written(st, of) ==
    IF Len(st.out) < MaxOut
    THEN [st EXCEPT !.out = Append(@, of)]
    ELSE st

InitChat ==
    /\ InitDelivery
    /\ InitEngineIdle
    /\ InitApiIdle("u1", "u1")
    /\ wire = [s \in Sessions |-> {}]
    /\ now = StartTime
    /\ frames_left = 0
    /\ args \in [1..MaxInbound -> InboundKinds]
    /\ result = ChatLoop

\* the receive loop takes the next frame of the chat and calls
\* handle_message, which comes to its first await
ChatRead ==
    /\ result.open
    /\ result.next <= MaxInbound
    /\ CanReadNext(result)
    /\ result' = [result EXCEPT
                     !.next = @ + 1,
                     !.inflight = @ \cup {[i |-> result.next,
                                           stage |-> "await"]}]
    /\ UNCHANGED <<deliveryVars, args, apiVars, engineVars>>

\* a handler is through with its awaits (reply API, delivery delay, item
\* lookups): it has a message to send, or returns without one
ChatProduce ==
    /\ \E h \in result.inflight :
          /\ h.stage = "await"
          /\ result' = [result EXCEPT !.inflight =
                           (@ \ {h}) \cup
                           IF args[h.i] = "silent" THEN {}
                           ELSE {[i |-> h.i, stage |-> "send"]}]
    /\ UNCHANGED <<deliveryVars, args, apiVars, engineVars>>

\* send_msg: the message is written to the socket; on a closed socket the
\* write raises, the handler's except logs it, and the handler returns
ChatSend ==
    /\ \E h \in result.inflight :
          /\ h.stage = "send"
          /\ result' = [(IF result.open THEN Written(result, h.i)
                         ELSE result)
                           EXCEPT !.inflight = @ \ {h}]
    /\ UNCHANGED <<deliveryVars, args, apiVars, engineVars>>

\* heartbeat_loop writes a heartbeat while a handler awaits or between two
\* frames
ChatHeartbeat ==
    /\ result.open
    /\ Len(result.out) < MaxOut
    /\ result' = Written(result, 0)
    /\ UNCHANGED <<deliveryVars, args, apiVars, engineVars>>

\* token_refresh_loop has refreshed the token and closes the socket
ChatRefreshClose ==
    /\ result.open
    /\ result' = [result EXCEPT !.open = FALSE]
    /\ UNCHANGED <<deliveryVars, args, apiVars, engineVars>>

\* the loop has ended with the socket, the handler has returned, and main
\* has connected again (frames pushed meanwhile are not read)
ChatReconnect ==
    /\ ~result.open
    /\ result.inflight = {}
    /\ result' = [result EXCEPT !.open = TRUE]
    /\ UNCHANGED <<deliveryVars, args, apiVars, engineVars>>

NextChat ==
    \/ ChatRead
    \/ ChatProduce
    \/ ChatSend
    \/ ChatHeartbeat
    \/ ChatRefreshClose
    \/ ChatReconnect

SpecChat == InitChat /\ [][NextChat]_vars

\* C36: the messages written for the inbound frames of a chat are written
\* in the order in which the frames were read, whatever the heartbeat and
\* the token-refresh task do in between
RepliesInOrder ==
    \A m, n \in 1..Len(result.out) :
        (m < n /\ result.out[m] # 0 /\ result.out[n] # 0)
            => result.out[m] < result.out[n]

\* the replies to the first and the third frame were written with a
\* heartbeat in between, and the socket was closed once on the way
RepliesInOrderWitness ==
    /\ \E m, n \in 1..Len(result.out) :
          m + 1 < n /\ result.out[m] = 1 /\ result.out[m + 1] = 0
                    /\ result.out[n] = 3
    /\ args[2] = "delivery"
    /\ \A n \in 1..Len(result.out) : result.out[n] # 2

\* C37: while the session is Active the token its socket was registered
\* with is the token it holds: a refresh that succeeds is followed by a
\* reconnect and a registration with the new token
RegisteredTokenCurrent ==
    ActiveOn(ws.id) => registered = current_token[Live]

\* main starts the two tasks of a new connection
TasksStarted == main.pc = "prime" /\ main'.pc = "recv"

\* C38: a session has at most one live heartbeat task and one live token
\* task: when main starts the tasks of a new connection, those of the
\* connection before have ended or been cancelled, however it ended
OneTaskOfEachKind ==
    [][TasksStarted => /\ ~Asleep(heartbeat_task)
                       /\ ~Asleep(token_refresh_task)]_vars

\* handle_message is entered for a frame of session s while its account is
\* disabled, and the step taken is the session's own
BeginsDisabled(s) ==
    /\ pc[s] = "handle"
    /\ ~enabled[s]
    /\ pc'[s] # "handle"

\* C39: a frame whose handling begins after its account was disabled is
\* dropped at once: no ack, no delivery message, no ship confirmation, no
\* card row consumed, no notification, no ledger or store write, and the
\* receive loop is back waiting for the next frame
DisabledFrameDropped ==
    [][\A s \in Sessions :
          BeginsDisabled(s) =>
              /\ pc'[s] = "idle"
              /\ cur'[s] = NoCur
              /\ UNCHANGED <<ledgerVars, storeVars, logVars, notifyVars>>]_vars

\* the account was disabled after its session had delivered, and the
\* session has read a trigger frame since: handle_message is about to start
DisabledFrameDroppedWitness ==
    /\ ~enabled["s1"]
    /\ pc["s1"] = "handle"
    /\ Classify(cur["s1"].f) = "trigger"
    /\ sent # {}

\* the delivery that took row c from the data card is still on its way to
\* the send
DeliveryInProgress(c) == pc[c.s] = "send" /\ cur[c.s].order = c.order

\* C40: every row the delivery pipeline has taken from a data card is
\* delivered: once the delivery that took it is over, a message carrying
\* the row has been written to the buyer
ConsumedRowsDelivered ==
    \A c \in consumed :
        ~DeliveryInProgress(c)
        => \E m \in sent :
              /\ m.s = c.s
              /\ m.order = c.order
              /\ m.text = process_delivery_content_with_description(
                              <<c.row>>, RuleById(m.rule).card_description)
====
